---------------------------- MODULE Spec2Model ----------------------------
(***************************************************************************)
(* A model of the checkers rule engine (engine/checkersLogic) and of the   *)
(* alpha-beta search engine (engine/aiEngine) of licheckerscom/ai-engine.  *)
(*                                                                         *)
(* Boards are functions  row -> column -> piece,  rows and columns counted *)
(* from 0 as in the source.  A move list is a sequence, in the order the   *)
(* source generates it (the search breaks ties by that order).             *)
(***************************************************************************)
EXTENDS Integers, Sequences, FiniteSets, TLC

VARIABLES
    mode,       \* App's mode: PLAY or PUZZLE
    variant,    \* gameState.variant
    board,      \* gameState.board
    turn,       \* gameState.turn
    aiLevel,    \* gameState.aiLevel
    table,      \* the module-level transpositionTable of aiEngine
    currentValidMoves,  \* App's memo: getValidMoves(board, turn, variant)
    op,         \* the operation that produced this state
    result,     \* what that operation returned
    nCalls,     \* moves played (or searches run) since the position was set up
    heap,       \* the arrays and piece objects of the boards applyMove is run on
    stack       \* the calls of the engine under way, the innermost last

vars == <<mode, variant, board, turn, aiLevel, table, currentValidMoves, op, result,
          nCalls, heap, stack>>

-----------------------------------------------------------------------------
(* types.ts: Player, PieceType, CheckersVariant                            *)

RED == "RED"
WHITE == "WHITE"
Player == {RED, WHITE}

PAWN == "PAWN"
KING == "KING"
PieceType == {PAWN, KING}

CheckersVariant ==
    { "ENGLISH", "INTERNATIONAL", "RUSSIAN", "BRAZILIAN", "ITALIAN", "TURKISH",
      "SUICIDE", "SPANISH", "POOL", "CANADIAN", "THAI", "CZECH", "ARMENIAN",
      "FRISIAN", "GOTHIC", "OLD_GERMAN" }

\* The empty cell (null in the source).
NULL == [null |-> TRUE]

Pos(r, c) == [r |-> r, c |-> c]

\* A Piece; its id is never read by the engine and is left out.
MkPiece(player, type, r, c) ==
    [player |-> player, type |-> type, position |-> Pos(r, c)]

Opponent(player) == IF player = RED THEN WHITE ELSE RED

-----------------------------------------------------------------------------
(* checkersLogic: getVariantRules                                          *)

BaseRules ==
    [ boardSize |-> 8,
      pawnCaptureBackwards |-> FALSE,
      kingLongRange |-> FALSE,
      majorityCaptureRequired |-> FALSE,
      qualityCaptureRequired |-> FALSE,
      kingCapturePriority |-> FALSE,
      pawnCanCaptureKing |-> TRUE,
      isOrthogonal |-> FALSE,
      isLosingGoal |-> FALSE,
      pawnKingTransformationMidJump |-> FALSE,
      kingStopsAfterCapture |-> FALSE,
      darkSquarePlay |-> TRUE,
      removeCapturedImmediately |-> FALSE,
      frisianCapturing |-> FALSE ]

getVariantRules(v) ==
    CASE v = "INTERNATIONAL" ->
           [BaseRules EXCEPT !.boardSize = 10, !.pawnCaptureBackwards = TRUE,
                             !.kingLongRange = TRUE, !.majorityCaptureRequired = TRUE]
      [] v = "RUSSIAN" ->
           [BaseRules EXCEPT !.pawnCaptureBackwards = TRUE, !.kingLongRange = TRUE,
                             !.pawnKingTransformationMidJump = TRUE,
                             !.majorityCaptureRequired = FALSE]
      [] v = "BRAZILIAN" ->
           [BaseRules EXCEPT !.pawnCaptureBackwards = TRUE, !.kingLongRange = TRUE,
                             !.majorityCaptureRequired = TRUE]
      [] v = "ITALIAN" ->
           [BaseRules EXCEPT !.majorityCaptureRequired = TRUE,
                             !.qualityCaptureRequired = TRUE,
                             !.kingCapturePriority = TRUE,
                             !.pawnCanCaptureKing = FALSE]
      [] v = "TURKISH" ->
           [BaseRules EXCEPT !.kingLongRange = TRUE, !.majorityCaptureRequired = TRUE,
                             !.isOrthogonal = TRUE, !.darkSquarePlay = FALSE,
                             !.removeCapturedImmediately = TRUE]
      [] v = "ARMENIAN" ->
           [BaseRules EXCEPT !.kingLongRange = TRUE, !.majorityCaptureRequired = TRUE,
                             !.isOrthogonal = TRUE, !.darkSquarePlay = FALSE,
                             !.removeCapturedImmediately = TRUE]
      [] v = "SUICIDE" ->
           [BaseRules EXCEPT !.isLosingGoal = TRUE, !.majorityCaptureRequired = TRUE]
      [] v = "SPANISH" ->
           [BaseRules EXCEPT !.kingLongRange = TRUE, !.majorityCaptureRequired = TRUE,
                             !.qualityCaptureRequired = TRUE]
      [] v = "POOL" ->
           [BaseRules EXCEPT !.pawnCaptureBackwards = TRUE, !.kingLongRange = TRUE,
                             !.majorityCaptureRequired = TRUE]
      [] v = "CANADIAN" ->
           [BaseRules EXCEPT !.boardSize = 12, !.pawnCaptureBackwards = TRUE,
                             !.kingLongRange = TRUE, !.majorityCaptureRequired = TRUE]
      [] v = "THAI" ->
           [BaseRules EXCEPT !.kingLongRange = TRUE, !.kingStopsAfterCapture = TRUE,
                             !.majorityCaptureRequired = TRUE]
      [] v = "CZECH" ->
           [BaseRules EXCEPT !.kingLongRange = TRUE, !.kingCapturePriority = TRUE]
      [] v = "FRISIAN" ->
           [BaseRules EXCEPT !.boardSize = 10, !.kingLongRange = TRUE,
                             !.majorityCaptureRequired = TRUE,
                             !.frisianCapturing = TRUE,
                             !.pawnCaptureBackwards = TRUE]
      [] v = "GOTHIC" ->
           [BaseRules EXCEPT !.boardSize = 8, !.kingLongRange = TRUE,
                             !.pawnCaptureBackwards = TRUE]
      [] v = "OLD_GERMAN" ->
           [BaseRules EXCEPT !.boardSize = 8, !.kingLongRange = FALSE,
                             !.majorityCaptureRequired = TRUE]
      [] OTHER -> BaseRules

-----------------------------------------------------------------------------
(* checkersLogic: createInitialBoard                                       *)

EmptyBoard(size) == [r \in 0..(size - 1) |-> [c \in 0..(size - 1) |-> NULL]]

\* A variant that sets the row count by the board size alone.
fillRows_bySize(v) ==
    IF getVariantRules(v).boardSize = 12 THEN 5
    ELSE IF getVariantRules(v).boardSize >= 10 THEN 4 ELSE 3

fillRows(v) ==
    LET size == getVariantRules(v).boardSize
        byDefault == IF size >= 10 THEN 4 ELSE 3
        bySize == IF size = 12 THEN 5 ELSE byDefault
    IN  IF v = "THAI" THEN 2 ELSE bySize

createInitialBoard(v) ==
    LET rules == getVariantRules(v)
        size == rules.boardSize
        Cell(r, c) ==
            IF ~rules.darkSquarePlay
            THEN IF r >= size - 3 /\ r <= size - 2 THEN MkPiece(RED, PAWN, r, c)
                 ELSE IF r >= 1 /\ r <= 2 THEN MkPiece(WHITE, PAWN, r, c)
                 ELSE NULL
            ELSE IF (r + c) % 2 # 0
                 THEN IF r < fillRows(v) THEN MkPiece(WHITE, PAWN, r, c)
                      ELSE IF r >= size - fillRows(v) THEN MkPiece(RED, PAWN, r, c)
                      ELSE NULL
                 ELSE NULL
    IN  [r \in 0..(size - 1) |-> [c \in 0..(size - 1) |-> Cell(r, c)]]

-----------------------------------------------------------------------------
(* checkersLogic: getPieceMoves, findJumps, getValidMoves                  *)

InBoard(size, r, c) == r >= 0 /\ r < size /\ c >= 0 /\ c < size

\* Truthiness of board[r][c] for a cell of the grid.
Occupied(b, r, c) == b[r][c] # NULL

Move(from, to, captures) == [from |-> from, to |-> to, captures |-> captures]

\* m.captures?.length ?? 0  (a step move carries no captures)
CaptureCount(m) == Len(m.captures)

\* A variant that gives every rule set the orthogonal direction list.
Dirs_orthogonal(rules, player) ==
    << <<0, 1>>, <<0, -1>>, <<(IF player = RED THEN -1 ELSE 1), 0>> >>

\* The direction list of getPieceMoves, in source order.
Dirs(rules, player) ==
    IF rules.isOrthogonal
    THEN << <<0, 1>>, <<0, -1>>, <<(IF player = RED THEN -1 ELSE 1), 0>> >>
    ELSE IF rules.frisianCapturing
    THEN << <<1, 1>>, <<1, -1>>, <<-1, 1>>, <<-1, -1>>,
            <<1, 0>>, <<-1, 0>>, <<0, 1>>, <<0, -1>> >>
    ELSE << <<1, 1>>, <<1, -1>>, <<-1, 1>>, <<-1, -1>> >>

\* Number of consecutive empty in-board cells from (r,c) along (dr,dc), the
\* cell (r,c) itself excluded: how far the source's  for (d = 1; d < size; d++)
\* loops run before they break (a line of the grid has at most size - 1 cells
\* beyond its first).
RECURSIVE Run(_, _, _, _, _, _)
Run(b, size, r, c, dr, dc) ==
    IF InBoard(size, r + dr, c + dc) /\ ~Occupied(b, r + dr, c + dc)
    THEN 1 + Run(b, size, r + dr, c + dc, dr, dc)
    ELSE 0

\* Mutant of Visited: the scan skips the first captured cell.
Visited_skipFirst(visitedCaptures, mr, mc) ==
    \E i \in 2..Len(visitedCaptures) : visitedCaptures[i] = Pos(mr, mc)

\* visitedCaptures.some(v => v.r === mr && v.c === mc)
Visited(visitedCaptures, mr, mc) ==
    \E i \in 1..Len(visitedCaptures) : visitedCaptures[i] = Pos(mr, mc)

kingRow(player, size) == IF player = RED THEN 0 ELSE size - 1

\* Mutant of NextType: no promotion in the middle of a chain.
NextType_never(rules, player, currentType, er) == currentType

\* The rank the next link of a man's chain is generated with.
NextType(rules, player, currentType, er) ==
    IF rules.pawnKingTransformationMidJump /\ er = kingRow(player, rules.boardSize)
    THEN KING ELSE currentType

RECURSIVE findJumps(_, _, _, _, _, _)
findJumps(b, piece, rules, currentPos, currentType, visitedCaptures) ==
    LET size == rules.boardSize
        dirs == Dirs(rules, piece.player)
        \* deeper jumps if any, else the chain ending on (er, ec)
        Chain(er, ec, nextType, newCaptures) ==
            LET deeper == findJumps(b, piece, rules, Pos(er, ec), nextType, newCaptures)
            IN  IF Len(deeper) > 0 THEN deeper
                ELSE << Move(piece.position, Pos(er, ec), newCaptures) >>
        \* one short jump over the adjacent cell (men and short kings)
        ShortJump(dr, dc, asPawn) ==
            LET mr == currentPos.r + dr
                mc == currentPos.c + dc
                er == currentPos.r + dr * 2
                ec == currentPos.c + dc * 2
            IN  IF ~InBoard(size, er, ec) THEN <<>>
                ELSE IF ~Occupied(b, mr, mc) THEN <<>>
                ELSE IF b[mr][mc].player = piece.player \/ Occupied(b, er, ec) THEN <<>>
                ELSE IF Visited(visitedCaptures, mr, mc) THEN <<>>
                ELSE IF asPawn /\ ~rules.pawnCanCaptureKing /\ b[mr][mc].type = KING
                     THEN <<>>
                ELSE Chain(er, ec,
                           IF asPawn THEN NextType(rules, piece.player, currentType, er)
                           ELSE currentType,
                           Append(visitedCaptures, Pos(mr, mc)))
        PawnJump(dr, dc) ==
            LET isBack == IF piece.player = RED THEN dr > 0 ELSE dr < 0
            IN  IF isBack /\ ~rules.pawnCaptureBackwards /\ ~rules.isOrthogonal
                THEN <<>>
                ELSE ShortJump(dr, dc, TRUE)
        \* a flying king: the first piece met along the direction, then every
        \* landing cell behind it (or only the first, if the king must stop)
        LongJump(dr, dc) ==
            LET d == Run(b, size, currentPos.r, currentPos.c, dr, dc) + 1
                mr == currentPos.r + dr * d
                mc == currentPos.c + dc * d
                tr == mr + dr
                tc == mc + dc
                newCaptures == Append(visitedCaptures, Pos(mr, mc))
                lands == Run(b, size, mr, mc, dr, dc)
                Landing[l \in 0..lands] ==
                    IF l = 0 THEN <<>>
                    ELSE Landing[l - 1]
                         \o Chain(mr + dr * l, mc + dc * l, currentType, newCaptures)
            IN  IF d > size - 1 \/ ~InBoard(size, mr, mc) THEN <<>>
                ELSE IF b[mr][mc].player = piece.player THEN <<>>
                ELSE IF Visited(visitedCaptures, mr, mc) THEN <<>>
                ELSE IF ~InBoard(size, tr, tc) THEN <<>>
                ELSE IF Occupied(b, tr, tc) THEN <<>>
                ELSE IF rules.kingStopsAfterCapture
                     THEN Chain(tr, tc, currentType, newCaptures)
                ELSE Landing[lands]
        InDir(dr, dc) ==
            IF currentType = PAWN THEN PawnJump(dr, dc)
            ELSE IF rules.kingLongRange THEN LongJump(dr, dc)
            ELSE ShortJump(dr, dc, FALSE)
        found[i \in 0..Len(dirs)] ==
            IF i = 0 THEN <<>>
            ELSE found[i - 1] \o InDir(dirs[i][1], dirs[i][2])
    IN  found[Len(dirs)]

\* The step moves of one piece (second half of getPieceMoves).
pieceSteps(b, piece, rules) ==
    LET size == rules.boardSize
        dirs == Dirs(rules, piece.player)
        r0 == piece.position.r
        c0 == piece.position.c
        StepsInDir(dr, dc) ==
            LET isBack == IF piece.player = RED THEN dr > 0 ELSE dr < 0
                isSide == dr = 0
                far == Run(b, size, r0, c0, dr, dc)
                tr == r0 + dr
                tc == c0 + dc
            IN  IF piece.type = PAWN /\ (isBack \/ (isSide /\ ~rules.isOrthogonal))
                THEN <<>>
                ELSE IF piece.type = KING /\ rules.kingLongRange
                THEN [d \in 1..far |->
                        Move(piece.position, Pos(r0 + dr * d, c0 + dc * d), <<>>)]
                ELSE IF InBoard(size, tr, tc) /\ ~Occupied(b, tr, tc)
                THEN << Move(piece.position, Pos(tr, tc), <<>>) >>
                ELSE <<>>
        steps[i \in 0..Len(dirs)] ==
            IF i = 0 THEN <<>>
            ELSE steps[i - 1] \o StepsInDir(dirs[i][1], dirs[i][2])
    IN  steps[Len(dirs)]

\* A variant whose chains never test whether a man may capture a king.
pieceJumps_menTakeKings(b, piece, rules) ==
    findJumps(b, piece, [rules EXCEPT !.pawnCanCaptureKing = TRUE],
              piece.position, piece.type, <<>>)

\* The capture chains of one piece (first half of getPieceMoves).
pieceJumps(b, piece, rules) ==
    findJumps(b, piece, rules, piece.position, piece.type, <<>>)

\* The pieces of `player` in row-major order (the double loop of getValidMoves).
piecesOf(b, player, size) ==
    LET inRow(r) ==
            LET upTo[c \in 0..size] ==
                    IF c = 0 THEN <<>>
                    ELSE IF b[r][c - 1] # NULL /\ b[r][c - 1].player = player
                         THEN Append(upTo[c - 1], b[r][c - 1])
                         ELSE upTo[c - 1]
            IN  upTo[size]
        rows[r \in 0..size] ==
            IF r = 0 THEN <<>> ELSE rows[r - 1] \o inRow(r - 1)
    IN  rows[size]

\* All capture chains of the side, before the priority filters.
jumpMoves(b, player, rules) ==
    LET ps == piecesOf(b, player, rules.boardSize)
        acc[i \in 0..Len(ps)] ==
            IF i = 0 THEN <<>>
            ELSE acc[i - 1] \o pieceJumps(b, ps[i], rules)
    IN  acc[Len(ps)]

stepMoves(b, player, rules) ==
    LET ps == piecesOf(b, player, rules.boardSize)
        acc[i \in 0..Len(ps)] ==
            IF i = 0 THEN <<>>
            ELSE acc[i - 1] \o pieceSteps(b, ps[i], rules)
    IN  acc[Len(ps)]

MaxOf(S) == CHOOSE x \in S : \A y \in S : y <= x

\* Number of kings standing on the captured cells of the board given.
getKingCount(b, m) ==
    Cardinality({ i \in 1..Len(m.captures) :
                    /\ Occupied(b, m.captures[i].r, m.captures[i].c)
                    /\ b[m.captures[i].r][m.captures[i].c].type = KING })

kingPriorityFilter(b, rules, jumps) ==
    LET FromKing(m) == /\ Occupied(b, m.from.r, m.from.c)
                       /\ b[m.from.r][m.from.c].type = KING
        kingJumps == SelectSeq(jumps, FromKing)
    IN  IF rules.kingCapturePriority /\ Len(kingJumps) > 0 THEN kingJumps ELSE jumps

\* Mutant of majorityFilter: the filter is skipped.
majorityFilter_skip(rules, filtered) == filtered

majorityFilter(rules, filtered) ==
    LET maxQty == MaxOf({ CaptureCount(filtered[i]) : i \in 1..Len(filtered) })
        IsMax(m) == CaptureCount(m) = maxQty
    IN  IF rules.majorityCaptureRequired THEN SelectSeq(filtered, IsMax) ELSE filtered

\* Mutant of qualityFilter: the filter is skipped.
qualityFilter_skip(b, rules, filtered) == filtered

qualityFilter(b, rules, filtered) ==
    LET maxKings == MaxOf({ getKingCount(b, filtered[i]) : i \in 1..Len(filtered) })
        IsMax(m) == getKingCount(b, m) = maxKings
    IN  IF rules.qualityCaptureRequired THEN SelectSeq(filtered, IsMax) ELSE filtered

\* Mutant of getValidMoves: the step moves are returned with the captures.
getValidMoves_withSteps(b, player, v) ==
    LET rules == getVariantRules(v)
        jumps == jumpMoves(b, player, rules)
    IN  IF Len(jumps) > 0
        THEN qualityFilter(b, rules,
                 majorityFilter(rules, kingPriorityFilter(b, rules, jumps)))
             \o stepMoves(b, player, rules)
        ELSE stepMoves(b, player, rules)

\* A variant that keeps the longest chains before it looks for king captures.
getValidMoves_majorityFirst(b, player, v) ==
    LET rules == getVariantRules(v)
        jumps == jumpMoves(b, player, rules)
    IN  IF Len(jumps) > 0
        THEN qualityFilter(b, rules,
                 kingPriorityFilter(b, rules, majorityFilter(rules, jumps)))
        ELSE stepMoves(b, player, rules)

getValidMoves(b, player, v) ==
    LET rules == getVariantRules(v)
        jumps == jumpMoves(b, player, rules)
    IN  IF Len(jumps) > 0
        THEN qualityFilter(b, rules,
                 majorityFilter(rules, kingPriorityFilter(b, rules, jumps)))
        ELSE stepMoves(b, player, rules)

-----------------------------------------------------------------------------
(* checkersLogic: applyMove, serializeBoard                                *)

\* Mutant of applyMove: the captured cells are not cleared.
applyMove_keepCaptured(b, move, v) ==
    LET rules == getVariantRules(v)
        piece == b[move.from.r][move.from.c]
        newType == IF move.to.r = kingRow(piece.player, rules.boardSize)
                   THEN KING ELSE piece.type
        newPiece == [piece EXCEPT !.position = move.to, !.type = newType]
    IN  IF piece = NULL THEN b
        ELSE [r \in DOMAIN b |-> [c \in DOMAIN b[r] |->
                IF r = move.from.r /\ c = move.from.c THEN NULL
                ELSE IF r = move.to.r /\ c = move.to.c THEN newPiece
                ELSE b[r][c]]]

\* Mutant of applyMove: the moved piece keeps its old position field.
applyMove_stalePosition(b, move, v) ==
    LET rules == getVariantRules(v)
        piece == b[move.from.r][move.from.c]
        newType == IF move.to.r = kingRow(piece.player, rules.boardSize)
                   THEN KING ELSE piece.type
        newPiece == [piece EXCEPT !.type = newType]
        Captured(r, c) ==
            \E i \in 1..Len(move.captures) : move.captures[i] = Pos(r, c)
    IN  IF piece = NULL THEN b
        ELSE [r \in DOMAIN b |-> [c \in DOMAIN b[r] |->
                IF Captured(r, c) THEN NULL
                ELSE IF r = move.from.r /\ c = move.from.c THEN NULL
                ELSE IF r = move.to.r /\ c = move.to.c THEN newPiece
                ELSE b[r][c]]]

applyMove(b, move, v) ==
    LET rules == getVariantRules(v)
        piece == b[move.from.r][move.from.c]
        newType == IF move.to.r = kingRow(piece.player, rules.boardSize)
                   THEN KING ELSE piece.type
        newPiece == [piece EXCEPT !.position = move.to, !.type = newType]
        Captured(r, c) ==
            \E i \in 1..Len(move.captures) : move.captures[i] = Pos(r, c)
    IN  IF piece = NULL THEN b
        ELSE [r \in DOMAIN b |-> [c \in DOMAIN b[r] |->
                IF Captured(r, c) THEN NULL
                ELSE IF r = move.from.r /\ c = move.from.c THEN NULL
                ELSE IF r = move.to.r /\ c = move.to.c THEN newPiece
                ELSE b[r][c]]]

-----------------------------------------------------------------------------
(* types.ts: applyMove, statement by statement, on the objects a board is  *)
(* made of.  A board is an array of row arrays whose cells refer to piece  *)
(* objects (0 for null); the heap holds the three kinds of object, each    *)
(* addressed by its index.  Positions are values: no statement of applyMove *)
(* writes to a field of a position.                                         *)

EmptyHeap == [boards |-> <<>>, rows |-> <<>>, pieces |-> <<>>]

\* The objects createInitialBoard or the puzzle parser build for board b: the
\* board array at address 1, one array per row, one object per piece, the
\* pieces numbered in row-major order.
allocBoard(b) ==
    LET size == Cardinality(DOMAIN b)
        occupied == { q \in (0..(size - 1)) \X (0..(size - 1)) : b[q[1]][q[2]] # NULL }
        index(r, c) ==
            Cardinality({ q \in occupied : q[1] < r \/ (q[1] = r /\ q[2] <= c) })
        cellOf(k) == CHOOSE q \in occupied : index(q[1], q[2]) = k
    IN  [boards |-> << [r \in 0..(size - 1) |-> r + 1] >>,
         rows |-> [i \in 1..size |-> [c \in 0..(size - 1) |->
                     IF b[i - 1][c] = NULL THEN 0 ELSE index(i - 1, c)]],
         pieces |-> [k \in 1..Cardinality(occupied) |-> b[cellOf(k)[1]][cellOf(k)[2]]]]

\* The board value the array at address ref holds.
boardAt(h, ref) ==
    [r \in DOMAIN h.boards[ref] |-> [c \in DOMAIN h.rows[h.boards[ref][r]] |->
        IF h.rows[h.boards[ref][r]][c] = 0 THEN NULL
        ELSE h.pieces[h.rows[h.boards[ref][r]][c]]]]

\* A variant of the copy that keeps the rows of the input:  board.map(row => row)
mapSlice_shared(h, ref) == [h EXCEPT !.boards = Append(@, h.boards[ref])]

\* board.map(row => row.slice()): a new board array of new row arrays, the
\* cells referring to the same piece objects.
mapSlice(h, ref) ==
    [h EXCEPT !.rows = @ \o [i \in 1..Cardinality(DOMAIN h.boards[ref]) |->
                                h.rows[h.boards[ref][i - 1]]],
              !.boards = Append(@, [r \in DOMAIN h.boards[ref] |-> Len(h.rows) + r + 1])]

\* { ...piece, position: to }: a new piece object.
spreadPiece(h, piece, to) ==
    [h EXCEPT !.pieces = Append(@, [h.pieces[piece] EXCEPT !.position = to])]

\* newPiece.type = type
setType(h, piece, type) == [h EXCEPT !.pieces[piece].type = type]

\* newBoard[r][c] = piece
setCell(h, ref, r, c, piece) == [h EXCEPT !.rows[h.boards[ref][r]][c] = piece]

\* move.captures.forEach(c => { newBoard[c.r][c.c] = null; }) from capture i on.
RECURSIVE clearCaptures(_, _, _, _)
clearCaptures(h, ref, captures, i) ==
    IF i > Len(captures) THEN h
    ELSE clearCaptures(setCell(h, ref, captures[i].r, captures[i].c, 0), ref, captures, i + 1)

\* The statements of applyMove after the test of the source cell.
movePiece(h, newBoard, piece, move, rules) ==
    LET h2 == spreadPiece(h, piece, move.to)
        newPiece == Len(h2.pieces)
        h3 == IF move.to.r = kingRow(h.pieces[piece].player, rules.boardSize)
              THEN setType(h2, newPiece, KING) ELSE h2
        h4 == setCell(h3, newBoard, move.to.r, move.to.c, newPiece)
        h5 == setCell(h4, newBoard, move.from.r, move.from.c, 0)
    IN  clearCaptures(h5, newBoard, move.captures, 1)

\* A variant that clears the captured cells before it looks at the source cell.
applyMoveOn_clearFirst(h, ref, move, v) ==
    LET h1 == mapSlice(h, ref)
        newBoard == Len(h1.boards)
        h2 == clearCaptures(h1, newBoard, move.captures, 1)
        piece == h2.rows[h2.boards[newBoard][move.from.r]][move.from.c]
    IN  IF piece = 0 THEN [heap |-> h2, board |-> newBoard]
        ELSE [heap |-> movePiece(h2, newBoard, piece, move, getVariantRules(v)),
              board |-> newBoard]

\* applyMove on the board at address ref: the heap it leaves and the address
\* of the board it returns.
applyMoveOn(h, ref, move, v) ==
    LET h1 == mapSlice(h, ref)
        newBoard == Len(h1.boards)
        piece == h1.rows[h1.boards[newBoard][move.from.r]][move.from.c]
    IN  IF piece = 0 THEN [heap |-> h1, board |-> ref]
        ELSE [heap |-> movePiece(h1, newBoard, piece, move, getVariantRules(v)),
              board |-> newBoard]

-----------------------------------------------------------------------------
(* types.ts: serializeBoard.                                               *)

\* A variant that never upper-cases the letter of a king.
pieceChar_noUpper(p) ==
    IF p = NULL THEN "."
    ELSE IF p.player = RED THEN "r" ELSE "w"

pieceChar(p) ==
    IF p = NULL THEN "."
    ELSE IF p.player = RED
         THEN (IF p.type = KING THEN "R" ELSE "r")
         ELSE (IF p.type = KING THEN "W" ELSE "w")

\* One character per cell, the rows joined by a line break.
serializeBoard(b) ==
    LET size == Cardinality(DOMAIN b)
        rowString(r) ==
            LET upTo[c \in 0..size] ==
                    IF c = 0 THEN "" ELSE upTo[c - 1] \o pieceChar(b[r][c - 1])
            IN  upTo[size]
        rows[r \in 1..size] ==
            IF r = 1 THEN rowString(0)
            ELSE rows[r - 1] \o "\n" \o rowString(r - 1)
    IN  IF size = 0 THEN "" ELSE rows[size]

-----------------------------------------------------------------------------
(* App.tsx: the puzzle-board parser of fetchNewPuzzle.                     *)

LowerCase == "abcdefghijklmnopqrstuvwxyz"
UpperCase == "ABCDEFGHIJKLMNOPQRSTUVWXYZ"

\* String.prototype.toUpperCase and toLowerCase on one character: a letter
\* changes case, any other character stays.
toUpperCase(char) ==
    IF \E i \in 1..Len(LowerCase) : SubSeq(LowerCase, i, i) = char
    THEN LET i == CHOOSE i \in 1..Len(LowerCase) : SubSeq(LowerCase, i, i) = char
         IN  SubSeq(UpperCase, i, i)
    ELSE char

toLowerCase(char) ==
    IF \E i \in 1..Len(UpperCase) : SubSeq(UpperCase, i, i) = char
    THEN LET i == CHOOSE i \in 1..Len(UpperCase) : SubSeq(UpperCase, i, i) = char
         IN  SubSeq(LowerCase, i, i)
    ELSE char

\* The piece the parser makes of the character of cell (r, c).
parseCell(char, r, c) ==
    IF char = "." THEN NULL
    ELSE MkPiece(IF toLowerCase(char) = "r" THEN RED ELSE WHITE,
                 IF char = toUpperCase(char) THEN KING ELSE PAWN, r, c)

-----------------------------------------------------------------------------
(* The search engine: evaluation, quiescence, alpha-beta, getBestMove.     *)

EVAL_WEIGHTS ==
    [PIECE |-> 1000, KING |-> 3500, MOBILITY |-> 25, CENTER |-> 80,
     BACK_ROW |-> 150, WIN |-> 10000000]

\* PST[r + 1][c + 1] is the source's PST[r][c].
PST ==
    << <<0, 50, 0, 50, 0, 50, 0, 50>>,
       <<40, 0, 45, 0, 45, 0, 40, 0>>,
       <<0, 35, 0, 40, 0, 40, 0, 35>>,
       <<30, 0, 35, 0, 35, 0, 30, 0>>,
       <<0, 30, 0, 35, 0, 35, 0, 30>>,
       <<25, 0, 30, 0, 30, 0, 25, 0>>,
       <<0, 20, 0, 20, 0, 20, 0, 20>>,
       <<15, 0, 15, 0, 15, 0, 15, 0>> >>

\* Stands for JavaScript's Infinity: larger than every evaluation.
Infinity == 1000000000

Min(a, b) == IF a <= b THEN a ELSE b
Max(a, b) == IF a >= b THEN a ELSE b

\* A variant that rewards the far rank instead of the piece's own first rank.
val_farRank(p, r, c, size) ==
    LET isRed == p.player = RED
    IN  (IF p.type = KING THEN EVAL_WEIGHTS.KING ELSE EVAL_WEIGHTS.PIECE)
        + (IF isRed THEN PST[Min(r, 7) + 1][Min(c, 7) + 1]
                    ELSE PST[7 - Min(r, 7) + 1][7 - Min(c, 7) + 1])
        + (IF p.type = PAWN THEN (IF isRed THEN 7 - r ELSE r) * 30 ELSE 0)
        + (IF isRed /\ r = 0 THEN EVAL_WEIGHTS.BACK_ROW ELSE 0)
        + (IF ~isRed /\ r = size - 1 THEN EVAL_WEIGHTS.BACK_ROW ELSE 0)

\* The value of the piece p found on cell (r, c): the body of the double loop
\* of evaluateBoard.
val(p, r, c, size) ==
    LET isRed == p.player = RED
    IN  (IF p.type = KING THEN EVAL_WEIGHTS.KING ELSE EVAL_WEIGHTS.PIECE)
        + (IF isRed THEN PST[Min(r, 7) + 1][Min(c, 7) + 1]
                    ELSE PST[7 - Min(r, 7) + 1][7 - Min(c, 7) + 1])
        + (IF p.type = PAWN THEN (IF isRed THEN 7 - r ELSE r) * 30 ELSE 0)
        + (IF isRed /\ r = size - 1 THEN EVAL_WEIGHTS.BACK_ROW ELSE 0)
        + (IF ~isRed /\ r = 0 THEN EVAL_WEIGHTS.BACK_ROW ELSE 0)

\* <<material, count>> of one side, cell by cell.
sideTotals(b, size, player) ==
    LET add(acc, p, r, c) ==
            IF p # NULL /\ p.player = player
            THEN <<acc[1] + val(p, r, c, size), acc[2] + 1>>
            ELSE acc
        inRow(r) ==
            LET upTo[c \in 0..size] ==
                    IF c = 0 THEN <<0, 0>>
                    ELSE add(upTo[c - 1], b[r][c - 1], r, c - 1)
            IN  upTo[size]
        sum(acc, row) == <<acc[1] + row[1], acc[2] + row[2]>>
        rows[r \in 0..size] ==
            IF r = 0 THEN <<0, 0>> ELSE sum(rows[r - 1], inRow(r - 1))
    IN  rows[size]

\* The last two statements of evaluateBoard.
scoreOf(red, white, isLosingGoal) ==
    IF isLosingGoal
    THEN -(red[1] - white[1] + (red[2] - white[2]) * EVAL_WEIGHTS.MOBILITY)
    ELSE red[1] - white[1] + (red[2] - white[2]) * EVAL_WEIGHTS.MOBILITY

evaluateWith(b, rules) ==
    scoreOf(sideTotals(b, rules.boardSize, RED),
            sideTotals(b, rules.boardSize, WHITE), rules.isLosingGoal)

evaluateBoard(b, v) == evaluateWith(b, getVariantRules(v))

\* The capturing moves among the legal moves (the filter of quiesce).
captureMoves(b, player, v) ==
    LET isCapture(m) == CaptureCount(m) > 0
    IN  SelectSeq(getValidMoves(b, player, v), isCapture)

RECURSIVE quiesce(_, _, _, _, _, _, _)
RECURSIVE quiesceMoves(_, _, _, _, _, _, _, _)

\* One turn of the for loop of quiesce, move i having scored `score`: the
\* window is narrowed, and the loop ends on a cutoff or goes on.
quiesceNext(score, b, moves, i, alpha, beta, isMax, v, depth) ==
    IF isMax
    THEN IF Max(alpha, score) >= beta THEN Max(alpha, score)
         ELSE quiesceMoves(b, moves, i + 1, Max(alpha, score), beta, isMax, v, depth)
    ELSE IF Min(beta, score) <= alpha THEN Min(beta, score)
         ELSE quiesceMoves(b, moves, i + 1, alpha, Min(beta, score), isMax, v, depth)

\* The for loop of quiesce from move i on; yields alpha (max) or beta (min).
\* The side to move below a maximising node is WHITE, below a minimising
\* node RED, as the code passes them.
quiesceMoves(b, moves, i, alpha, beta, isMax, v, depth) ==
    IF i > Len(moves) THEN (IF isMax THEN alpha ELSE beta)
    ELSE quiesceNext(quiesce(applyMove(b, moves[i], v), alpha, beta, ~isMax,
                             IF isMax THEN WHITE ELSE RED, v, depth + 1),
                     b, moves, i, alpha, beta, isMax, v, depth)

\* quiesce once the position was evaluated.
quiesceFrom(standPat, b, alpha, beta, isMax, player, v, depth) ==
    IF depth > 4 THEN standPat
    ELSE IF isMax /\ standPat >= beta THEN beta
    ELSE IF ~isMax /\ standPat <= alpha THEN alpha
    ELSE quiesceMoves(b, captureMoves(b, player, v), 1,
                      IF isMax THEN Max(alpha, standPat) ELSE alpha,
                      IF isMax THEN beta ELSE Min(beta, standPat),
                      isMax, v, depth)

quiesce(b, alpha, beta, isMax, player, v, depth) ==
    quiesceFrom(evaluateBoard(b, v), b, alpha, beta, isMax, player, v, depth)

\* The transposition table is a function from keys to entries.
EmptyTable == <<>>
tableSize(t) == Cardinality(DOMAIN t)
tableKey(b, isMax, player) ==
    serializeBoard(b) \o (IF isMax THEN "true" ELSE "false") \o player

\* moves.sort by descending capture count; the sort is stable.
orderMoves(moves) ==
    LET top == IF moves = <<>> THEN 0
               ELSE MaxOf({ CaptureCount(moves[i]) : i \in 1..Len(moves) })
        bucket(k) ==
            LET has(m) == CaptureCount(m) = k
            IN  SelectSeq(moves, has)
        desc[k \in 0..(top + 1)] ==
            IF k = 0 THEN <<>> ELSE desc[k - 1] \o bucket(top - (k - 1))
    IN  desc[top + 1]

\* The flag stored with a searched node, as the code computes it: against
\* the window as the loop over the moves left it.
flagOf(best, alpha, beta) ==
    IF best <= alpha THEN "UPPER" ELSE IF best >= beta THEN "LOWER" ELSE "EXACT"

RECURSIVE alphaBeta(_, _, _, _, _, _, _, _)
RECURSIVE alphaBetaMoves(_, _, _, _, _, _, _, _)

\* best after a child scored `score`.
bestWith(best, score, isMax) ==
    IF isMax THEN Max(best, score) ELSE Min(best, score)

\* The body of the loop of alphaBeta: best, the window and the table after
\* the child answered `sub`; w holds them as the moves before left them.
alphaBetaUpdate(sub, w, isMax) ==
    [best |-> bestWith(w.best, sub.score, isMax),
     alpha |-> IF isMax THEN Max(w.alpha, bestWith(w.best, sub.score, isMax))
               ELSE w.alpha,
     beta |-> IF isMax THEN w.beta
              ELSE Min(w.beta, bestWith(w.best, sub.score, isMax)),
     table |-> sub.table]

\* The end of one turn of the for loop of alphaBeta, w holding best, the
\* window and the table after move i: the loop breaks when the window has
\* closed and goes on with the next move otherwise.
alphaBetaNext(w, i, b, ordered, depth, isMax, player, v) ==
    IF w.beta <= w.alpha THEN w
    ELSE alphaBetaMoves(w, i + 1, b, ordered, depth, isMax, player, v)

\* The for loop of alphaBeta from move i on.
alphaBetaMoves(w, i, b, ordered, depth, isMax, player, v) ==
    IF i > Len(ordered) THEN w
    ELSE alphaBetaNext(
             alphaBetaUpdate(alphaBeta(w.table, applyMove(b, ordered[i], v), depth - 1,
                                       w.alpha, w.beta, ~isMax, Opponent(player), v),
                             w, isMax),
             i, b, ordered, depth, isMax, player, v)

\* The last two statements of alphaBeta: the entry is stored while the table
\* has room, and best is returned.
alphaBetaStore(key, loop, depth) ==
    [score |-> loop.best,
     table |-> IF tableSize(loop.table) < 50000
               THEN (key :> [depth |-> depth, score |-> loop.best,
                             flag |-> flagOf(loop.best, loop.alpha, loop.beta)])
                    @@ loop.table
               ELSE loop.table]

\* alphaBeta from the generation of the moves on.
alphaBetaSearch(moves, key, t, b, depth, alpha, beta, isMax, player, v) ==
    IF depth = 0 \/ Len(moves) = 0
    THEN [score |-> quiesce(b, alpha, beta, isMax, player, v, 0), table |-> t]
    ELSE alphaBetaStore(key,
                        alphaBetaMoves([best |-> IF isMax THEN -Infinity ELSE Infinity,
                                        alpha |-> alpha, beta |-> beta, table |-> t],
                                       1, b, orderMoves(moves), depth, isMax, player, v),
                        depth)

\* alphaBeta with the window the cached entry left.
alphaBetaNarrowed(hit, alpha, beta, key, t, b, depth, isMax, player, v) ==
    IF hit /\ alpha >= beta THEN [score |-> t[key].score, table |-> t]
    ELSE alphaBetaSearch(getValidMoves(b, player, v), key, t, b, depth,
                         alpha, beta, isMax, player, v)

\* The table probe of alphaBeta; hit: an entry of sufficient depth exists.
alphaBetaProbe(hit, key, t, b, depth, alpha, beta, isMax, player, v) ==
    IF hit /\ t[key].flag = "EXACT" THEN [score |-> t[key].score, table |-> t]
    ELSE alphaBetaNarrowed(hit,
                           IF hit /\ t[key].flag = "LOWER"
                           THEN Max(alpha, t[key].score) ELSE alpha,
                           IF hit /\ t[key].flag = "UPPER"
                           THEN Min(beta, t[key].score) ELSE beta,
                           key, t, b, depth, isMax, player, v)

alphaBetaKeyed(key, t, b, depth, alpha, beta, isMax, player, v) ==
    alphaBetaProbe(key \in DOMAIN t /\ t[key].depth >= depth,
                   key, t, b, depth, alpha, beta, isMax, player, v)

\* alphaBeta on table t: the score and the table it leaves.
alphaBeta(t, b, depth, alpha, beta, isMax, player, v) ==
    alphaBetaKeyed(tableKey(b, isMax, player), t, b, depth, alpha, beta,
                   isMax, player, v)

\* The difficulty-to-depth mapping of getBestMove.
searchDepth_swapped(lv) ==
    IF lv <= 2 THEN 2 ELSE IF lv <= 4 THEN 4 ELSE IF lv <= 6 THEN 5
    ELSE IF lv <= 8 THEN 6 ELSE IF lv <= 10 THEN 8 ELSE IF lv <= 12 THEN 9
    ELSE IF lv <= 14 THEN 10 ELSE IF lv = 15 THEN 11 ELSE IF lv = 16 THEN 14
    ELSE IF lv = 17 THEN 12 ELSE 16

searchDepth(lv) ==
    IF lv <= 2 THEN 2 ELSE IF lv <= 4 THEN 4 ELSE IF lv <= 6 THEN 5
    ELSE IF lv <= 8 THEN 6 ELSE IF lv <= 10 THEN 8 ELSE IF lv <= 12 THEN 9
    ELSE IF lv <= 14 THEN 10 ELSE IF lv = 15 THEN 11 ELSE IF lv = 16 THEN 12
    ELSE IF lv = 17 THEN 14 ELSE 16

RECURSIVE getBestMoveMoves(_, _, _, _, _)

\* A variant that also takes a move whose score equals the best so far.
isBetter_orEqual(score, bestScore, player) ==
    \/ player = RED /\ score >= bestScore
    \/ player = WHITE /\ score <= bestScore

\* The body of the loop of getBestMove: the move is kept when its score is
\* strictly better for the side to move.
isBetter(score, bestScore, player) ==
    \/ player = RED /\ score > bestScore
    \/ player = WHITE /\ score < bestScore

\* The score alphaBeta gives the position after `move`, on table t.
childScore(t, gameState, move, depth) ==
    alphaBeta(t, applyMove(gameState.board, move, gameState.variant),
              depth - 1, -Infinity, Infinity,
              gameState.turn # RED, Opponent(gameState.turn), gameState.variant)

\* The end of one turn of the for loop of getBestMove: move i, scored as
\* `sub` says, replaces bestMove when strictly better for the side to move,
\* and the loop goes on with the next move.
getBestMoveNext(sub, acc, i, gameState, moves, depth) ==
    IF isBetter(sub.score, acc.score, gameState.turn)
    THEN getBestMoveMoves([move |-> moves[i], score |-> sub.score, table |-> sub.table],
                          i + 1, gameState, moves, depth)
    ELSE getBestMoveMoves([move |-> acc.move, score |-> acc.score, table |-> sub.table],
                          i + 1, gameState, moves, depth)

\* The for loop of getBestMove from move i on; acc holds bestMove, bestScore
\* and the table.
getBestMoveMoves(acc, i, gameState, moves, depth) ==
    IF i > Len(moves) THEN acc
    ELSE getBestMoveNext(childScore(acc.table, gameState, moves[i], depth),
                         acc, i, gameState, moves, depth)

\* The body of getBestMove once the table was checked for its size and the
\* legal moves were generated.
bestOf(t0, gameState, moves) ==
    IF Len(moves) = 0 THEN [move |-> NULL, score |-> 0, table |-> t0]
    ELSE getBestMoveMoves([move |-> moves[1],
                           score |-> IF gameState.turn = RED THEN -Infinity ELSE Infinity,
                           table |-> t0],
                          1, gameState, moves, searchDepth(gameState.aiLevel))

\* A variant that reports the absence of a legal move as a move.
noNull(r) ==
    IF r.move = NULL THEN [r EXCEPT !.move = Move(Pos(0, 0), Pos(0, 0), <<>>)] ELSE r

getBestMove_noNull(t, gameState) ==
    noNull(bestOf(IF tableSize(t) > 20000 THEN EmptyTable ELSE t, gameState,
                  getValidMoves(gameState.board, gameState.turn, gameState.variant)))

\* A variant that clears the table only beyond its capacity.
getBestMove_clearLate(t, gameState) ==
    bestOf(IF tableSize(t) > 50000 THEN EmptyTable ELSE t, gameState,
           getValidMoves(gameState.board, gameState.turn, gameState.variant))

\* getBestMove on table t: the move returned (NULL for none) and the table
\* the call leaves.
getBestMove(t, gameState) ==
    bestOf(IF tableSize(t) > 20000 THEN EmptyTable ELSE t, gameState,
           getValidMoves(gameState.board, gameState.turn, gameState.variant))

-----------------------------------------------------------------------------
(* Bounds of the model.                                                    *)

\* Moves played from an initial position.
MaxPlies == 2
\* Pieces on a loaded puzzle position.
MaxPuzzlePieces == 3
\* Calls of getBestMove on one game state.
MaxCalls == 3
\* Difficulty levels run from 0 to MaxLevel (the slider offers 1..18).
MaxLevel == 20
\* Pieces on an evaluated position.
MaxEvalPieces == 2
\* Calls of applyMove on one input board.
MaxExpansions == 2
\* Searches that share the transposition table.
MaxSearches == 2
\* Calls of the engine under way at one time.
MaxFrames == 12
-----------------------------------------------------------------------------
(* App.tsx: the game state and its handlers.                               *)

NoResult == [none |-> TRUE]

\* The cells a puzzle position may use: four playable cells next to RED's
\* promotion rank (on dark-square boards the dark cells of rows 1..2, columns
\* 1..4), placed so that double jumps, jumps through the promotion rank and
\* long-range captures with several landing cells all occur.  A variant with
\* mid-chain promotion gets the next dark cell of row 2 as well, so that a man
\* promoted on (0,3) finds a piece two cells away.
PuzzleCells(v) ==
    IF getVariantRules(v).darkSquarePlay
    THEN { Pos(2, 1), Pos(1, 2), Pos(2, 3), Pos(1, 4) }
         \cup (IF getVariantRules(v).pawnKingTransformationMidJump
                THEN { Pos(2, 5) } ELSE {})
    ELSE { Pos(2, 1), Pos(2, 2), Pos(1, 3), Pos(1, 1) }

\* fetchNewPuzzle: the board parsed from the puzzle's characters; every piece
\* gets the position of its cell.  A man never stands on its promotion rank.
puzzleBoard(v, cells, kind) ==
    LET size == getVariantRules(v).boardSize
    IN  [r \in 0..(size - 1) |-> [c \in 0..(size - 1) |->
            IF Pos(r, c) \in cells
            THEN MkPiece(kind[Pos(r, c)][1], kind[Pos(r, c)][2], r, c)
            ELSE NULL]]

PuzzleKinds(v, cell) ==
    { k \in Player \X PieceType :
        ~(k[2] = PAWN /\ cell.r = kingRow(k[1], getVariantRules(v).boardSize)) }

\* The application starts in PLAY mode on an initial position.
Init ==
    /\ mode = "PLAY"
    /\ variant \in CheckersVariant
    /\ board = createInitialBoard(variant)
    /\ turn = RED
    /\ aiLevel = 8
    /\ table = <<>>
    /\ currentValidMoves = getValidMoves(board, turn, variant)
    /\ op = "new"
    /\ result = NoResult
    /\ nCalls = 0
    /\ heap = EmptyHeap
    /\ stack = <<>>

\* handleModeChange(PUZZLE) and fetchNewPuzzle: a puzzle for the current
\* variant is loaded, with its own side to move.
fetchNewPuzzle(cells, kind, puzzleTurn) ==
    /\ mode = "PLAY"
    /\ op = "new"
    /\ Cardinality(cells) >= 2
    /\ Cardinality(cells) <= MaxPuzzlePieces
    /\ \A p \in cells : kind[p] \in PuzzleKinds(variant, p)
    /\ mode' = "PUZZLE"
    /\ board' = puzzleBoard(variant, cells, kind)
    /\ turn' = puzzleTurn
    /\ currentValidMoves' = getValidMoves(board', turn', variant)
    /\ op' = "puzzle"
    /\ result' = NoResult
    /\ nCalls' = 0
    /\ UNCHANGED <<variant, aiLevel, table, heap, stack>>

\* handleMove: apply a legal move and pass the turn.  Games are played on from
\* an initial position; a puzzle position is only examined (its legal moves
\* and the boards they lead to), not played on.
handleMove(i) ==
    /\ mode = "PLAY"
    /\ nCalls < MaxPlies
    /\ i \in 1..Len(currentValidMoves)
    /\ board' = applyMove(board, currentValidMoves[i], variant)
    /\ turn' = Opponent(turn)
    /\ currentValidMoves' = getValidMoves(board', turn', variant)
    /\ op' = "move"
    /\ result' = currentValidMoves[i]
    /\ nCalls' = nCalls + 1
    /\ UNCHANGED <<mode, variant, aiLevel, table, heap, stack>>

\* resetGame in PLAY mode: handleVariantChange(variant).
resetGame ==
    /\ mode = "PLAY"
    /\ op = "move"
    /\ board' = createInitialBoard(variant)
    /\ turn' = RED
    /\ currentValidMoves' = getValidMoves(board', turn', variant)
    /\ op' = "new"
    /\ result' = NoResult
    /\ nCalls' = 0
    /\ UNCHANGED <<mode, variant, aiLevel, table, heap, stack>>

Next ==
    \/ \E i \in 1..Len(currentValidMoves) : handleMove(i)
    \/ resetGame
    \/ \E cells \in SUBSET PuzzleCells(variant) :
         \E kind \in [cells -> Player \X PieceType] :
           \E puzzleTurn \in Player : fetchNewPuzzle(cells, kind, puzzleTurn)

Spec == Init /\ [][Next]_vars

-----------------------------------------------------------------------------
(* getBestMove called repeatedly on one game state.  The transposition     *)
(* table is module state of the engine: it is empty when the module is     *)
(* loaded and every call works on what the calls before it left.           *)

\* The searched positions: two pieces of any owner and rank on two cells of
\* the right-hand edge, either side to move (a side without pieces has no
\* legal move), on 8x8 variants with short and with flying kings, a
\* losing-goal variant included, at the levels of the two smallest depths.
SearchVariants == { "ENGLISH", "RUSSIAN", "SUICIDE" }
SearchLevels == { 1, 3 }
SearchCells == { Pos(4, 7), Pos(2, 7) }

InitSearch ==
    /\ mode = "PUZZLE"
    /\ variant \in SearchVariants
    /\ \E kind \in [SearchCells -> Player \X PieceType] :
         /\ \A p \in SearchCells : kind[p] \in PuzzleKinds(variant, p)
         /\ board = puzzleBoard(variant, SearchCells, kind)
    /\ turn \in Player
    /\ aiLevel \in SearchLevels
    /\ table = EmptyTable
    /\ currentValidMoves = getValidMoves(board, turn, variant)
    /\ op = "new"
    /\ result = NoResult
    /\ nCalls = 0
    /\ heap = EmptyHeap
    /\ stack = <<>>

\* One call of getBestMove on the current game state.
callGetBestMove ==
    /\ nCalls < MaxCalls
    /\ LET returned(r) == result' = r.move /\ table' = r.table
       IN  returned(getBestMove(table, [board |-> board, turn |-> turn,
                                        variant |-> variant, aiLevel |-> aiLevel]))
    /\ op' = "best"
    /\ nCalls' = nCalls + 1
    /\ UNCHANGED <<mode, variant, board, turn, aiLevel, currentValidMoves, heap, stack>>

NextSearch == callGetBestMove

SpecSearch == InitSearch /\ [][NextSearch]_vars

-----------------------------------------------------------------------------
(* The difficulty slider: the depth getBestMove derives from the level.    *)

InitDepth ==
    /\ mode = "PLAY"
    /\ variant = "ENGLISH"
    /\ board = createInitialBoard(variant)
    /\ turn = RED
    /\ aiLevel \in 0..MaxLevel
    /\ table = EmptyTable
    /\ currentValidMoves = <<>>
    /\ op = "new"
    /\ result = NoResult
    /\ nCalls = 0
    /\ heap = EmptyHeap
    /\ stack = <<>>

\* The level is changed; result keeps the level left and the depth
\* getBestMove derives from it.
setAiLevel(lv) ==
    /\ aiLevel' = lv
    /\ result' = [level |-> aiLevel, depth |-> searchDepth(aiLevel)]
    /\ op' = "level"
    /\ UNCHANGED <<mode, variant, board, turn, table, currentValidMoves, nCalls, heap, stack>>

NextDepth == \E lv \in 0..MaxLevel : setAiLevel(lv)

SpecDepth == InitDepth /\ [][NextDepth]_vars

-----------------------------------------------------------------------------
(* evaluateBoard applied to small positions of every variant.              *)

\* Two cells next to each side's home rank; on a 10x10 or 12x12 board the
\* lower two lie beyond row 7.
EvalCells(v) ==
    LET size == getVariantRules(v).boardSize
    IN  { Pos(0, 1), Pos(2, 1), Pos(size - 1, size - 2), Pos(size - 3, size - 2) }

InitEval ==
    /\ mode = "PUZZLE"
    /\ variant \in CheckersVariant
    /\ \E cells \in SUBSET EvalCells(variant) :
         /\ Cardinality(cells) >= 1
         /\ Cardinality(cells) <= MaxEvalPieces
         /\ \E kind \in [cells -> Player \X PieceType] :
              /\ \A p \in cells : kind[p] \in PuzzleKinds(variant, p)
              /\ board = puzzleBoard(variant, cells, kind)
    /\ turn = RED
    /\ aiLevel = 8
    /\ table = EmptyTable
    /\ currentValidMoves = <<>>
    /\ op = "new"
    /\ result = NoResult
    /\ nCalls = 0
    /\ heap = EmptyHeap
    /\ stack = <<>>

\* The position is evaluated.
evaluate ==
    /\ op = "new"
    /\ result' = evaluateBoard(board, variant)
    /\ op' = "eval"
    /\ UNCHANGED <<mode, variant, board, turn, aiLevel, table, currentValidMoves, nCalls, heap, stack>>

NextEval == evaluate

SpecEval == InitEval /\ [][NextEval]_vars

-----------------------------------------------------------------------------
(* Games in progress under the variants with kingCapturePriority: four     *)
(* pieces placed so that a man of the side to move may have a double jump  *)
(* while a king of the same side has a single one.                         *)

PriorityVariants == { v \in CheckersVariant : getVariantRules(v).kingCapturePriority }
PriorityCells == { Pos(5, 2), Pos(5, 4), Pos(4, 3), Pos(2, 5) }

InitPriority ==
    /\ mode = "PLAY"
    /\ variant \in PriorityVariants
    /\ \E kind \in [PriorityCells -> Player \X PieceType] :
         /\ \A p \in PriorityCells : kind[p] \in PuzzleKinds(variant, p)
         /\ board = puzzleBoard(variant, PriorityCells, kind)
    /\ turn \in Player
    /\ aiLevel = 8
    /\ table = EmptyTable
    /\ currentValidMoves = getValidMoves(board, turn, variant)
    /\ op = "new"
    /\ result = NoResult
    /\ nCalls = 0
    /\ heap = EmptyHeap
    /\ stack = <<>>

NextPriority == \E i \in 1..Len(currentValidMoves) : handleMove(i)

SpecPriority == InitPriority /\ [][NextPriority]_vars

-----------------------------------------------------------------------------
(* aiEngineService.ts: calculateBestMove(board, turn, variant, level), the *)
(* caller that hands getBestMove a game state of any variant and level.    *)
(* The searches share the module-level table; each one is run for another  *)
(* variant or level than the one before.                                   *)

InitShared ==
    /\ mode = "PUZZLE"
    /\ variant = "ENGLISH"
    /\ \E kind \in [SearchCells -> Player \X PieceType] :
         /\ \A p \in SearchCells : kind[p] \in PuzzleKinds(variant, p)
         /\ board = puzzleBoard(variant, SearchCells, kind)
    /\ turn \in Player
    /\ aiLevel = 1
    /\ table = EmptyTable
    /\ currentValidMoves = getValidMoves(board, turn, variant)
    /\ op = "new"
    /\ result = NoResult
    /\ nCalls = 0
    /\ heap = EmptyHeap
    /\ stack = <<>>

calculateBestMove(v, level) ==
    /\ nCalls < MaxSearches
    /\ nCalls > 0 => <<v, level>> # <<variant, aiLevel>>
    /\ variant' = v
    /\ aiLevel' = level
    /\ currentValidMoves' = getValidMoves(board, turn, v)
    /\ LET returned(r) == result' = r.move /\ table' = r.table
       IN  returned(getBestMove(table, [board |-> board, turn |-> turn,
                                        variant |-> v, aiLevel |-> level]))
    /\ op' = "best"
    /\ nCalls' = nCalls + 1
    /\ UNCHANGED <<mode, board, turn, heap, stack>>

NextShared == \E v \in SearchVariants, level \in SearchLevels : calculateBestMove(v, level)

SpecShared == InitShared /\ [][NextShared]_vars

-----------------------------------------------------------------------------
(* alphaBeta on one position with the full window and an empty table, as   *)
(* getBestMove calls it for the position after a root move: one ply less   *)
(* than the depth of the level.                                            *)

AlphaBetaVariants == { "ENGLISH", "ITALIAN", "SUICIDE" }
AlphaBetaLevels == { 1, 3, 5 }
AlphaBetaCells == { Pos(1, 4), Pos(1, 6) }

InitAlphaBeta ==
    /\ mode = "PUZZLE"
    /\ variant \in AlphaBetaVariants
    /\ \E kind \in [AlphaBetaCells -> Player \X PieceType] :
         /\ \A p \in AlphaBetaCells : kind[p] \in PuzzleKinds(variant, p)
         /\ board = puzzleBoard(variant, AlphaBetaCells, kind)
    /\ turn \in Player
    /\ aiLevel \in AlphaBetaLevels
    /\ table = EmptyTable
    /\ currentValidMoves = getValidMoves(board, turn, variant)
    /\ op = "new"
    /\ result = NoResult
    /\ nCalls = 0
    /\ heap = EmptyHeap
    /\ stack = <<>>

callAlphaBeta ==
    /\ op = "new"
    /\ LET returned(out) == result' = out.score /\ table' = out.table
       IN  returned(alphaBeta(table, board, searchDepth(aiLevel) - 1, -Infinity, Infinity,
                              turn = RED, turn, variant))
    /\ op' = "alphaBeta"
    /\ nCalls' = nCalls + 1
    /\ UNCHANGED <<mode, variant, board, turn, aiLevel, currentValidMoves, heap, stack>>

NextAlphaBeta == callAlphaBeta

SpecAlphaBeta == InitAlphaBeta /\ [][NextAlphaBeta]_vars

-----------------------------------------------------------------------------
(* A long session: the table is module state and keeps what the searches   *)
(* of earlier games stored. The positions are searched on a table that     *)
(* already holds entries of other positions, as many as the two thresholds *)
(* of the engine or one more or less; getBestMove is called at top level   *)
(* and alphaBeta as a search under way calls it.                           *)

\* The sizes of the table the searches find.
TableSizes == { 0, 20000, 20001, 49999, 50000 }
TableCells == { Pos(1, 4), Pos(1, 6) }

\* The keys of n entries stored for positions of earlier games.
StaleKeys(n) == { "s" \o ToString(i) : i \in 1..n }

\* No key of the positions searched here equals one of them, so what their
\* entries hold is never read: each is kept as 0.
StaleTable(n) == [key \in StaleKeys(n) |-> 0]

InitTable ==
    /\ mode = "PUZZLE"
    /\ variant = "ENGLISH"
    /\ \E kind \in [TableCells -> Player \X PieceType] :
         /\ \A p \in TableCells : kind[p] \in PuzzleKinds(variant, p)
         /\ board = puzzleBoard(variant, TableCells, kind)
    /\ turn \in Player
    /\ aiLevel = 1
    /\ \E n \in TableSizes : table = StaleTable(n)
    /\ currentValidMoves = getValidMoves(board, turn, variant)
    /\ op = "new"
    /\ result = NoResult
    /\ nCalls = 0
    /\ heap = EmptyHeap
    /\ stack = <<>>

NextTable == callAlphaBeta \/ callGetBestMove

SpecTable == InitTable /\ [][NextTable]_vars

-----------------------------------------------------------------------------
(* One search, call by call. The stack holds a frame for getBestMove and   *)
(* for every call of alphaBeta and quiesce under way: its arguments, its   *)
(* locals and where it stands (pc): "start" before its first statement,    *)
(* "loop" before the call of the i-th move, "tail" at alphaBeta's          *)
(* `return quiesce(...)`, "done" with the value it returns.                *)

Frame(fn, b, depth, alpha, beta, isMax, player) ==
    [fn |-> fn, pc |-> "start", board |-> b, depth |-> depth, alpha |-> alpha,
     beta |-> beta, isMax |-> isMax, player |-> player, key |-> "", moves |-> <<>>,
     i |-> 0, best |-> 0, bestMove |-> NULL, value |-> 0]

\* getBestMove after its first four statements, before the loop.
getBestMoveFrame(gameState, moves) ==
    [Frame("getBestMove", gameState.board, searchDepth(gameState.aiLevel),
           -Infinity, Infinity, gameState.turn = RED, gameState.turn)
     EXCEPT !.pc = "loop", !.moves = moves, !.i = 1, !.bestMove = moves[1],
            !.best = IF gameState.turn = RED THEN -Infinity ELSE Infinity]

\* A variant in which getBestMove passes isMax of the side that moved.
calleeOf_rootMax(f, v) ==
    IF f.fn = "getBestMove"
    THEN Frame("alphaBeta", applyMove(f.board, f.moves[f.i], v), f.depth - 1,
               -Infinity, Infinity, f.player = RED, Opponent(f.player))
    ELSE IF f.fn = "alphaBeta" /\ f.pc = "tail"
    THEN Frame("quiesce", f.board, 0, f.alpha, f.beta, f.isMax, f.player)
    ELSE IF f.fn = "alphaBeta"
    THEN Frame("alphaBeta", applyMove(f.board, f.moves[f.i], v), f.depth - 1,
               f.alpha, f.beta, ~f.isMax, Opponent(f.player))
    ELSE Frame("quiesce", applyMove(f.board, f.moves[f.i], v), f.depth + 1,
               f.alpha, f.beta, ~f.isMax, IF f.isMax THEN WHITE ELSE RED)

\* The call the frame f makes next: the arguments it passes.
calleeOf(f, v) ==
    IF f.fn = "getBestMove"
    THEN Frame("alphaBeta", applyMove(f.board, f.moves[f.i], v), f.depth - 1,
               -Infinity, Infinity, f.player # RED, Opponent(f.player))
    ELSE IF f.fn = "alphaBeta" /\ f.pc = "tail"
    THEN Frame("quiesce", f.board, 0, f.alpha, f.beta, f.isMax, f.player)
    ELSE IF f.fn = "alphaBeta"
    THEN Frame("alphaBeta", applyMove(f.board, f.moves[f.i], v), f.depth - 1,
               f.alpha, f.beta, ~f.isMax, Opponent(f.player))
    ELSE Frame("quiesce", applyMove(f.board, f.moves[f.i], v), f.depth + 1,
               f.alpha, f.beta, ~f.isMax, IF f.isMax THEN WHITE ELSE RED)

returns(f, value) == [f EXCEPT !.pc = "done", !.value = value]

\* alphaBeta from its first statement to the loop, the tail call or a return
\* on a table hit.
alphaBetaEntered(f, key, hit, alpha, beta, moves, t) ==
    IF hit /\ (t[key].flag = "EXACT" \/ alpha >= beta) THEN returns(f, t[key].score)
    ELSE IF f.depth = 0 \/ Len(moves) = 0
    THEN [f EXCEPT !.pc = "tail", !.key = key, !.alpha = alpha, !.beta = beta]
    ELSE [f EXCEPT !.pc = "loop", !.key = key, !.alpha = alpha, !.beta = beta,
                   !.moves = orderMoves(moves), !.i = 1,
                   !.best = IF f.isMax THEN -Infinity ELSE Infinity]

alphaBetaProbed(f, key, hit, t, v) ==
    alphaBetaEntered(f, key, hit,
                     IF hit /\ t[key].flag = "LOWER" THEN Max(f.alpha, t[key].score) ELSE f.alpha,
                     IF hit /\ t[key].flag = "UPPER" THEN Min(f.beta, t[key].score) ELSE f.beta,
                     getValidMoves(f.board, f.player, v), t)

alphaBetaEnter(f, key, t, v) ==
    alphaBetaProbed(f, key, key \in DOMAIN t /\ t[key].depth >= f.depth, t, v)

\* quiesce from its first statement to the loop or a return.
quiesceEntered(f, standPat, moves) ==
    IF f.depth > 4 THEN returns(f, standPat)
    ELSE IF f.isMax /\ standPat >= f.beta THEN returns(f, f.beta)
    ELSE IF ~f.isMax /\ standPat <= f.alpha THEN returns(f, f.alpha)
    ELSE IF Len(moves) = 0
    THEN returns(f, IF f.isMax THEN Max(f.alpha, standPat) ELSE Min(f.beta, standPat))
    ELSE [f EXCEPT !.pc = "loop", !.moves = moves, !.i = 1,
                   !.alpha = IF f.isMax THEN Max(f.alpha, standPat) ELSE f.alpha,
                   !.beta = IF f.isMax THEN f.beta ELSE Min(f.beta, standPat)]

quiesceEnter(f, v) ==
    quiesceEntered(f, evaluateBoard(f.board, v), captureMoves(f.board, f.player, v))

\* The rest of the loop body of the caller f once the call of move i has
\* returned `score`: the frame goes on to the next move, or returns.
getBestMoveResumed(f, score) ==
    LET kept == IF isBetter(score, f.best, f.player)
                THEN [f EXCEPT !.best = score, !.bestMove = f.moves[f.i]]
                ELSE f
    IN  IF f.i = Len(f.moves) THEN [kept EXCEPT !.pc = "done"]
        ELSE [kept EXCEPT !.i = f.i + 1]

alphaBetaWindow(f, best) ==
    [f EXCEPT !.best = best,
              !.alpha = IF f.isMax THEN Max(f.alpha, best) ELSE f.alpha,
              !.beta = IF f.isMax THEN f.beta ELSE Min(f.beta, best)]

\* A variant of the loops of alphaBeta and quiesce that never leaves a move.
loopResumed_noAdvance(w, value) ==
    IF w.beta <= w.alpha THEN returns(w, value) ELSE w

loopResumed(w, value) ==
    IF w.beta <= w.alpha \/ w.i = Len(w.moves) THEN returns(w, value)
    ELSE [w EXCEPT !.i = w.i + 1]

alphaBetaResumed(f, score) ==
    LET w == alphaBetaWindow(f, bestWith(f.best, score, f.isMax))
    IN  loopResumed(w, w.best)

quiesceResumed(f, score) ==
    LET w == [f EXCEPT !.alpha = IF f.isMax THEN Max(f.alpha, score) ELSE f.alpha,
                       !.beta = IF f.isMax THEN f.beta ELSE Min(f.beta, score)]
    IN  loopResumed(w, IF f.isMax THEN w.alpha ELSE w.beta)

resumed(f, value) ==
    IF f.fn = "getBestMove" THEN getBestMoveResumed(f, value)
    ELSE IF f.pc = "tail" THEN returns(f, value)
    ELSE IF f.fn = "alphaBeta" THEN alphaBetaResumed(f, value)
    ELSE quiesceResumed(f, value)

\* The table after the caller f resumed as g: alphaBeta stores its entry when
\* it leaves its loop.
tableAfter(t, f, g) ==
    IF f.fn = "alphaBeta" /\ f.pc = "loop" /\ g.pc = "done" /\ tableSize(t) < 50000
    THEN (g.key :> [depth |-> g.depth, score |-> g.best,
                    flag |-> flagOf(g.best, g.alpha, g.beta)]) @@ t
    ELSE t

Top == stack[Len(stack)]
Caller == stack[Len(stack) - 1]
replaceTop(st, f) == [st EXCEPT ![Len(st)] = f]
pop(st) == SubSeq(st, 1, Len(st) - 1)

\* getBestMove is called on the game state.
enterGetBestMove ==
    /\ op = "new"
    /\ stack = <<>>
    /\ table' = IF tableSize(table) > 20000 THEN EmptyTable ELSE table
    /\ IF Len(getValidMoves(board, turn, variant)) = 0
       THEN /\ stack' = <<>>
            /\ result' = NULL
            /\ op' = "best"
       ELSE /\ stack' = << getBestMoveFrame([board |-> board, turn |-> turn,
                                             variant |-> variant, aiLevel |-> aiLevel],
                                            getValidMoves(board, turn, variant)) >>
            /\ result' = result
            /\ op' = "search"
    /\ UNCHANGED <<mode, variant, board, turn, aiLevel, currentValidMoves, nCalls, heap>>

\* The innermost call makes its next call.
enterCall ==
    /\ stack # <<>>
    /\ Top.pc \in {"loop", "tail"}
    /\ Len(stack) < MaxFrames
    /\ stack' = Append(stack, calleeOf(Top, variant))
    /\ UNCHANGED <<mode, variant, board, turn, aiLevel, table, currentValidMoves, op,
                   result, nCalls, heap>>

\* The call just made runs up to its loop, its tail call or a return.
runCall ==
    /\ stack # <<>>
    /\ Top.pc = "start"
    /\ stack' = replaceTop(stack,
                    IF Top.fn = "alphaBeta"
                    THEN alphaBetaEnter(Top, tableKey(Top.board, Top.isMax, Top.player),
                                        table, variant)
                    ELSE quiesceEnter(Top, variant))
    /\ UNCHANGED <<mode, variant, board, turn, aiLevel, table, currentValidMoves, op,
                   result, nCalls, heap>>

\* The innermost call returns: its caller resumes, or getBestMove hands its
\* move to the application.
returnCall ==
    /\ stack # <<>>
    /\ Top.pc = "done"
    /\ IF Len(stack) = 1
       THEN /\ stack' = <<>>
            /\ result' = Top.bestMove
            /\ op' = "best"
            /\ table' = table
            /\ nCalls' = nCalls + 1
       ELSE /\ stack' = replaceTop(pop(stack), resumed(Caller, Top.value))
            /\ table' = tableAfter(table, Caller, resumed(Caller, Top.value))
            /\ UNCHANGED <<op, result, nCalls>>
    /\ UNCHANGED <<mode, variant, board, turn, aiLevel, currentValidMoves, heap>>

NextRun == enterGetBestMove \/ enterCall \/ runCall \/ returnCall

SpecRun == InitSearch /\ [][NextRun]_vars

\* A search under way is not abandoned: JavaScript runs getBestMove to its
\* return, so a step that can be taken is taken. The positions are those of
\* the variants with short-range kings at the smallest depth.
TerminateVariants == { "ENGLISH", "SUICIDE" }

InitTerminate == InitSearch /\ variant \in TerminateVariants /\ aiLevel = 1

SpecTerminate == InitTerminate /\ [][NextRun]_vars /\ WF_vars(NextRun)

-----------------------------------------------------------------------------
(* The service adapter (class AICheckersEngineService, the revision with   *)
(* convertBoardFormat): the application's board, whose pieces carry a      *)
(* colour and a rank but no position, is converted and handed to the       *)
(* engine.                                                                 *)

\* The board in engine format: every piece gets the position { r: 0, c: 0 }.
convertBoardFormat(existingBoard) ==
    [r \in DOMAIN existingBoard |-> [c \in DOMAIN existingBoard[r] |->
        IF existingBoard[r][c] = NULL THEN NULL
        ELSE MkPiece(existingBoard[r][c].player, existingBoard[r][c].type, 0, 0)]]

\* getValidMovesForBoard: result keeps the board handed to the engine and the
\* moves the engine returns for it.
getValidMovesForBoard ==
    /\ op = "new"
    /\ result' = [board |-> convertBoardFormat(board),
                  moves |-> getValidMoves(convertBoardFormat(board), turn, variant)]
    /\ op' = "validMoves"
    /\ UNCHANGED <<mode, variant, board, turn, aiLevel, table, currentValidMoves, nCalls,
                   heap, stack>>

NextAdapter == getValidMovesForBoard

SpecAdapter == InitEval /\ [][NextAdapter]_vars

-----------------------------------------------------------------------------
(* serializeBoard on a position, as analyzePosition and alphaBeta call it. *)

serialize ==
    /\ op = "new"
    /\ result' = serializeBoard(board)
    /\ op' = "serialize"
    /\ UNCHANGED <<mode, variant, board, turn, aiLevel, table, currentValidMoves, nCalls, heap, stack>>

NextSerialize == serialize

SpecSerialize == InitEval /\ [][NextSerialize]_vars

-----------------------------------------------------------------------------
(* applyMove on one input board, as the loops of alphaBeta and getBestMove *)
(* call it: the same board is expanded with one move after the other.     *)
(* The board variable keeps the value the input board had when it was set  *)
(* up; heap holds its objects (the board array at address 1) and those of  *)
(* every board returned so far.                                            *)

ApplyVariants == { "ENGLISH", "RUSSIAN", "TURKISH" }

\* Moves whose source cell is empty: from a cell no position here uses, with
\* one cell of the position named as captured.
StaleMoves(v, b) ==
    { Move(Pos(4, 4), Pos(3, 3), << p >>) : p \in { q \in PuzzleCells(v) : b[q.r][q.c] # NULL } }

InitApply ==
    /\ mode = "PUZZLE"
    /\ variant \in ApplyVariants
    /\ \E cells \in SUBSET PuzzleCells(variant) :
         /\ Cardinality(cells) = 2
         /\ \E kind \in [cells -> Player \X PieceType] :
              /\ \A p \in cells : kind[p] \in PuzzleKinds(variant, p)
              /\ board = puzzleBoard(variant, cells, kind)
    /\ turn \in Player
    /\ aiLevel = 8
    /\ table = EmptyTable
    /\ currentValidMoves = getValidMoves(board, turn, variant)
    /\ op = "new"
    /\ result = NoResult
    /\ nCalls = 0
    /\ heap = allocBoard(board)
    /\ stack = <<>>

\* One call  applyMove(board, move, variant)  on the input board.
callApplyMove(move) ==
    /\ nCalls < MaxExpansions
    /\ LET returned(out) == heap' = out.heap /\ result' = [move |-> move, board |-> out.board]
       IN  returned(applyMoveOn(heap, 1, move, variant))
    /\ op' = "apply"
    /\ nCalls' = nCalls + 1
    /\ UNCHANGED <<mode, variant, board, turn, aiLevel, table, currentValidMoves, stack>>

NextApply ==
    \/ \E i \in 1..Len(currentValidMoves) : callApplyMove(currentValidMoves[i])
    \/ \E move \in StaleMoves(variant, board) : callApplyMove(move)

SpecApply == InitApply /\ [][NextApply]_vars

-----------------------------------------------------------------------------
(* Properties of the move generator and of applyMove.                      *)

rulesNow == getVariantRules(variant)
sizeNow == rulesNow.boardSize
Moves == { currentValidMoves[i] : i \in 1..Len(currentValidMoves) }
Cells(size) == { Pos(r, c) : r \in 0..(size - 1), c \in 0..(size - 1) }
PiecesOn(b, size, player) ==
    Cardinality({ k \in 0..(size * size - 1) :
                    /\ b[k \div size][k % size] # NULL
                    /\ b[k \div size][k % size].player = player })

\* C1: forced capture. If any legal move of the side to move captures, every
\* legal move captures: no step move is returned alongside a capture.
C1_ForcedCapture ==
    (\E m \in Moves : CaptureCount(m) > 0) => (\A m \in Moves : CaptureCount(m) > 0)

\* A capture is returned while some piece of the side also has a step move.
C1_Witness ==
    /\ \E m \in Moves : CaptureCount(m) > 0
    /\ Len(stepMoves(board, turn, rulesNow)) > 0

\* C2: the captured cells of every legal move are pairwise distinct.
C2_DistinctCaptures ==
    \A m \in Moves :
        \A i, j \in 1..Len(m.captures) : i # j => m.captures[i] # m.captures[j]

\* A flying king two cells away from the piece it takes first returns a chain
\* of several captures: it could jump back over that piece were it not
\* remembered as captured.
C2_Witness ==
    \E m \in Moves :
        /\ Len(m.captures) >= 2
        /\ board[m.from.r][m.from.c].type = KING
        /\ rulesNow.kingLongRange
        /\ \/ m.captures[1].r - m.from.r \in {2, -2}
           \/ m.captures[1].c - m.from.c \in {2, -2}

\* C3: every legal move stays on the grid, lands on an empty cell other than
\* its source, and applying it keeps the mover's piece count and takes exactly
\* the captured pieces from the opponent.
C3_MovesWellFormed ==
    LET size == sizeNow
        mine == PiecesOn(board, size, turn)
        theirs == PiecesOn(board, size, Opponent(turn))
    IN  \A m \in Moves :
            /\ InBoard(size, m.from.r, m.from.c)
            /\ InBoard(size, m.to.r, m.to.c)
            /\ \A i \in 1..Len(m.captures) :
                   InBoard(size, m.captures[i].r, m.captures[i].c)
            /\ board[m.to.r][m.to.c] = NULL
            /\ m.to # m.from
            /\ LET after == applyMove(board, m, variant)
               IN  /\ DOMAIN after = 0..(size - 1)
                   /\ \A r \in DOMAIN after : DOMAIN after[r] = 0..(size - 1)
                   /\ PiecesOn(after, size, turn) = mine
                   /\ PiecesOn(after, size, Opponent(turn)) = theirs - Len(m.captures)

\* A legal move takes two pieces at once and promotes the man that makes it.
C3_Witness ==
    \E m \in Moves :
        /\ Len(m.captures) >= 2
        /\ board[m.from.r][m.from.c].type = PAWN
        /\ applyMove(board, m, variant)[m.to.r][m.to.c].type = KING

\* position field = grid cell, for every piece of a board
PositionsAgree(b) ==
    \A r \in DOMAIN b : \A c \in DOMAIN b[r] :
        b[r][c] # NULL => b[r][c].position = Pos(r, c)

\* C4: on every reachable board every piece's position field is the cell that
\* holds it, and so it is on the board every legal move leads to.
C4_PositionsAgree ==
    /\ PositionsAgree(board)
    /\ \A m \in Moves : PositionsAgree(applyMove(board, m, variant))

\* A move has been played (the moved piece stands on a new cell).
C4_Witness ==
    /\ op = "move"
    /\ board[result.to.r][result.to.c] # NULL
    /\ board[result.from.r][result.from.c] = NULL

\* The capture chains left after the king-priority filter.
Candidates == kingPriorityFilter(board, rulesNow, jumpMoves(board, turn, rulesNow))
CandidateCounts == { CaptureCount(Candidates[i]) : i \in 1..Len(Candidates) }

\* C5: under majority capture every legal move captures as many pieces as the
\* longest candidate chain.
C5_Majority ==
    LET counts == CandidateCounts
    IN  (rulesNow.majorityCaptureRequired /\ counts # {}) =>
            \A m \in Moves : \A n \in counts : CaptureCount(m) >= n

\* Under majority capture the side has candidate chains of different lengths.
C5_Witness ==
    /\ rulesNow.majorityCaptureRequired
    /\ Cardinality(CandidateCounts) >= 2

\* The four diagonals.
Diagonals == { <<1, 1>>, <<1, -1>>, <<-1, 1>>, <<-1, -1>> }

\* King rules: the cells a flying king standing on p can capture next, the
\* cells in `taken` being captured already.
KingTargets(b, size, player, p, taken) ==
    { x \in Cells(size) :
        \E dir \in Diagonals : \E d \in 1..(size - 1) :
            /\ x = Pos(p.r + dir[1] * d, p.c + dir[2] * d)
            /\ \A j \in 1..(d - 1) : b[p.r + dir[1] * j][p.c + dir[2] * j] = NULL
            /\ b[x.r][x.c] # NULL
            /\ b[x.r][x.c].player # player
            /\ x \notin taken
            /\ Pos(x.r + dir[1], x.c + dir[2]) \in Cells(size)
            /\ b[x.r + dir[1]][x.c + dir[2]] = NULL }

\* Man rules: the adjacent cells a man standing on p can capture next.
ManTargets(b, rules, player, p, taken) ==
    LET dirs == Dirs(rules, player)
    IN  { x \in Cells(rules.boardSize) :
            \E i \in 1..Len(dirs) :
                LET dr == dirs[i][1]
                    dc == dirs[i][2]
                    isBack == IF player = RED THEN dr > 0 ELSE dr < 0
                IN  /\ ~isBack \/ rules.pawnCaptureBackwards \/ rules.isOrthogonal
                    /\ x = Pos(p.r + dr, p.c + dc)
                    /\ b[x.r][x.c] # NULL
                    /\ b[x.r][x.c].player # player
                    /\ rules.pawnCanCaptureKing \/ b[x.r][x.c].type # KING
                    /\ x \notin taken
                    /\ Pos(p.r + 2 * dr, p.c + 2 * dc) \in Cells(rules.boardSize)
                    /\ b[p.r + 2 * dr][p.c + 2 * dc] = NULL }

\* Where a chain stands after its first k captures, all of them short jumps.
RECURSIVE LandingAfter(_, _)
LandingAfter(m, k) ==
    IF k = 0 THEN m.from
    ELSE LET prev == LandingAfter(m, k - 1)
         IN  Pos(2 * m.captures[k].r - prev.r, 2 * m.captures[k].c - prev.c)

\* The chain m of a man first touches the promotion rank after capture k.
FirstPromotedAt(m, k) ==
    /\ k \in 1..Len(m.captures)
    /\ LandingAfter(m, k).r = kingRow(turn, sizeNow)
    /\ \A j \in 1..(k - 1) : LandingAfter(m, j).r # kingRow(turn, sizeNow)

\* The unfiltered capture chains of the men of the side to move.
ManChains ==
    LET all == jumpMoves(board, turn, rulesNow)
    IN  { all[i] : i \in { j \in 1..Len(all) :
                             board[all[j].from.r][all[j].from.c].type = PAWN } }

Taken(m, k) == { m.captures[i] : i \in 1..k }

\* C6: once a man's chain has landed on its promotion rank, the next link is
\* generated with king rules under mid-chain promotion and with man rules
\* otherwise.
C6_MidChainPromotion ==
    LET chains == ManChains
        rules == rulesNow
        \* the cells captured at link k + 1 by the chains sharing m's first k links
        NextCaptured(m, k) ==
            { n.captures[k + 1] :
                n \in { x \in chains :
                          /\ x.from = m.from
                          /\ Len(x.captures) > k
                          /\ SubSeq(x.captures, 1, k) = SubSeq(m.captures, 1, k) } }
    IN  \A m \in chains : \A k \in 1..Len(m.captures) :
            FirstPromotedAt(m, k) =>
                NextCaptured(m, k) =
                    IF rules.pawnKingTransformationMidJump
                    THEN KingTargets(board, rules.boardSize, turn,
                                     LandingAfter(m, k), Taken(m, k))
                    ELSE ManTargets(board, rules, turn,
                                    LandingAfter(m, k), Taken(m, k))

\* Under mid-chain promotion a man lands on its promotion rank and goes on to
\* capture a piece that is not adjacent to the landing cell.
C6_Witness ==
    /\ rulesNow.pawnKingTransformationMidJump
    /\ \E m \in ManChains : \E k \in 1..(Len(m.captures) - 1) :
         /\ FirstPromotedAt(m, k)
         /\ m.captures[k + 1].r - LandingAfter(m, k).r \notin {1, -1}


-----------------------------------------------------------------------------
(* Properties of the search engine.                                        *)

\* C7: getBestMove returns null exactly when the side to move has no legal
\* move, and otherwise a member of getValidMoves(board, turn, variant); the
\* call completes in either case.
C7_BestMoveOrNull ==
    op = "best" =>
        LET legal == getValidMoves(board, turn, variant)
        IN  /\ (result = NULL) <=> (Len(legal) = 0)
            /\ result # NULL => \E i \in 1..Len(legal) : legal[i] = result

\* getBestMove has answered null on a position whose side to move has no move.
C7_Witness ==
    /\ op = "best"
    /\ result = NULL
    /\ Len(getValidMoves(board, turn, variant)) = 0
    /\ PiecesOn(board, sizeNow, Opponent(turn)) > 0

\* C8: starting from an empty transposition table, every further call of
\* getBestMove on the same board, side, variant and level returns the move
\* the call before it returned.
C8_Determinism ==
    [][(op = "best" /\ op' = "best") => result' = result]_vars

\* C9: the difficulty-to-depth mapping is monotonically non-decreasing, with
\* depth(1) = 2 and depth(18) = 16.
C9_DepthMonotone ==
    op = "level" =>
        /\ result.level <= aiLevel => result.depth <= searchDepth(aiLevel)
        /\ result.level = 1 => result.depth = 2
        /\ result.level = 18 => result.depth = 16

\* The slider has gone from level 1 to level 18 and the depth has grown.
C9_Witness ==
    /\ op = "level"
    /\ result.level = 1
    /\ aiLevel = 18
    /\ result.depth < searchDepth(aiLevel)

\* The board rotated by 180 degrees with the owner of every piece swapped
\* and its rank kept.
mirror(b) ==
    LET size == Cardinality(DOMAIN b)
    IN  [r \in 0..(size - 1) |-> [c \in 0..(size - 1) |->
            LET p == b[size - 1 - r][size - 1 - c]
            IN  IF p = NULL THEN NULL
                ELSE MkPiece(Opponent(p.player), p.type, r, c)]]

\* C10: for a variant that is not a losing-goal variant, the evaluation of
\* the mirrored board is the negated evaluation of the board, whatever the
\* board size.
C10_Antisymmetry ==
    (op = "eval" /\ ~rulesNow.isLosingGoal) =>
        evaluateBoard(mirror(board), variant) = -result

\* C11: on the initial board of the English variant, getValidMoves for RED,
\* the first side to move, returns exactly 7 moves, all of them steps without
\* captures.
C11_OpeningMoves ==
    (variant = "ENGLISH" /\ board = createInitialBoard("ENGLISH") /\ turn = RED)
        => /\ Len(currentValidMoves) = 7
           /\ currentValidMoves = getValidMoves(board, turn, variant)
           /\ \A i \in 1..Len(currentValidMoves) :
                  /\ CaptureCount(currentValidMoves[i]) = 0
                  /\ currentValidMoves[i].to.r = currentValidMoves[i].from.r - 1
                  /\ currentValidMoves[i].to.c - currentValidMoves[i].from.c \in { -1, 1 }

C11_Witness ==
    /\ variant = "ENGLISH"
    /\ board = createInitialBoard("ENGLISH")
    /\ turn = RED
    /\ op = "new"
    /\ Len(currentValidMoves) = 7

\* C12: applyMove never modifies the board given to it nor any piece object
\* that board holds: after the call every array and every piece object that
\* existed before it is as it was, the input board still holds the position
\* it was set up with, and the board returned holds the position after the
\* move, so that the same board can be expanded with several moves.
C12_InputUntouched ==
    [][op' = "apply" =>
          /\ \A k \in DOMAIN heap.boards : heap'.boards[k] = heap.boards[k]
          /\ \A k \in DOMAIN heap.rows : heap'.rows[k] = heap.rows[k]
          /\ \A k \in DOMAIN heap.pieces : heap'.pieces[k] = heap.pieces[k]
          /\ boardAt(heap', 1) = board
          /\ boardAt(heap', result'.board) = applyMove(board, result'.move, variant)]_vars

\* A second move applied to the same input board, one of them a capture,
\* both boards returned differing from the input.
C12_Witness ==
    /\ op = "apply"
    /\ nCalls = 2
    /\ Len(heap.boards) = 3
    /\ boardAt(heap, 2) # board
    /\ boardAt(heap, 3) # board
    /\ boardAt(heap, 2) # boardAt(heap, 3)
    /\ CaptureCount(result.move) > 0
    /\ boardAt(heap, 1) = board

\* C13: when the source cell of the move is empty, applyMove returns a board
\* equal to the input board: no cell changed, the captured cells not cleared.
C13_EmptySource ==
    (op = "apply" /\ board[result.move.from.r][result.move.from.c] = NULL)
        => /\ boardAt(heap, result.board) = board
           /\ applyMove(board, result.move, variant) = board

C13_Witness ==
    /\ op = "apply"
    /\ board[result.move.from.r][result.move.from.c] = NULL
    /\ CaptureCount(result.move) = 1
    /\ board[result.move.captures[1].r][result.move.captures[1].c] # NULL
    /\ boardAt(heap, result.board) = board

\* The rows of board b that hold a piece of the player.
RowsOf(b, size, player) ==
    { r \in 0..(size - 1) : \E c \in 0..(size - 1) : b[r][c] # NULL /\ b[r][c].player = player }

\* Every piece of b is a man, and stands on a dark square when dark is set.
OnlyMen(b, size, dark) ==
    \A r \in 0..(size - 1), c \in 0..(size - 1) :
        b[r][c] # NULL => /\ b[r][c].type = PAWN
                          /\ b[r][c].position = Pos(r, c)
                          /\ dark => (r + c) % 2 = 1

\* The number of rows the claim gives a board of that size.
RowsBySize(size) == IF size = 12 THEN 5 ELSE IF size = 10 THEN 4 ELSE 3

\* The board is the initial board of the variant in play.
AtStart == op = "new" /\ mode = "PLAY" /\ board = createInitialBoard(variant)

\* C14 as stated: createInitialBoard places only men, as many for each side,
\* on 3 rows per side on 8-wide boards, 4 on 10-wide and 5 on 12-wide, Thai
\* alone using 2 rows; on dark squares only unless the variant plays on all
\* squares.
C14_RowsBySize ==
    AtStart =>
        /\ OnlyMen(board, sizeNow, rulesNow.darkSquarePlay)
        /\ PiecesOn(board, sizeNow, RED) = PiecesOn(board, sizeNow, WHITE)
        /\ \A player \in Player :
              Cardinality(RowsOf(board, sizeNow, player))
                  = IF variant = "THAI" THEN 2 ELSE RowsBySize(sizeNow)

\* C14 amended: the row count by board size holds for the variants that play
\* on dark squares (Thai using 2 rows); a variant that plays on all squares
\* fills two complete rows per side, rows 1..2 for WHITE and the rows
\* size-3..size-2 for RED.  Every playable square of a filled row holds a man
\* of that side.
C14_InitialLayout ==
    AtStart =>
        /\ OnlyMen(board, sizeNow, rulesNow.darkSquarePlay)
        /\ PiecesOn(board, sizeNow, RED) = PiecesOn(board, sizeNow, WHITE)
        /\ PiecesOn(board, sizeNow, RED) > 0
        /\ IF rulesNow.darkSquarePlay
           THEN /\ RowsOf(board, sizeNow, WHITE)
                      = 0..((IF variant = "THAI" THEN 2 ELSE RowsBySize(sizeNow)) - 1)
                /\ RowsOf(board, sizeNow, RED)
                      = (sizeNow - (IF variant = "THAI" THEN 2 ELSE RowsBySize(sizeNow)))
                            ..(sizeNow - 1)
           ELSE /\ RowsOf(board, sizeNow, WHITE) = 1..2
                /\ RowsOf(board, sizeNow, RED) = (sizeNow - 3)..(sizeNow - 2)
        /\ \A player \in Player : \A r \in RowsOf(board, sizeNow, player) :
              \A c \in 0..(sizeNow - 1) :
                  (rulesNow.darkSquarePlay => (r + c) % 2 = 1)
                      => board[r][c] # NULL /\ board[r][c].player = player

\* The initial board of a variant that plays on all squares: sixteen men a side.
C14_Witness ==
    /\ AtStart
    /\ ~rulesNow.darkSquarePlay
    /\ PiecesOn(board, sizeNow, RED) = 16
    /\ board[1][0] # NULL

\* The character of cell (r, c) in a text of rows of `size` characters with a
\* line break between rows.
charOf(text, size, r, c) == SubSeq(text, r * (size + 1) + c + 1, r * (size + 1) + c + 1)

\* C15: serializeBoard emits one character per cell in row-major order, the
\* rows separated by a line break ('.' empty, 'r'/'w' man, 'R'/'W' king), and
\* the puzzle-board parser of fetchNewPuzzle makes of the character of each
\* cell a cell of the same occupancy, owner and rank.
C15_RoundTrip ==
    op = "serialize" =>
        /\ Len(result) = sizeNow * sizeNow + (sizeNow - 1)
        /\ \A r \in 0..(sizeNow - 2) :
              SubSeq(result, (r + 1) * (sizeNow + 1), (r + 1) * (sizeNow + 1)) = "\n"
        /\ \A r \in 0..(sizeNow - 1), c \in 0..(sizeNow - 1) :
              /\ charOf(result, sizeNow, r, c) = pieceChar(board[r][c])
              /\ charOf(result, sizeNow, r, c) \in { ".", "r", "w", "R", "W" }
              /\ (parseCell(charOf(result, sizeNow, r, c), r, c) = NULL) = (board[r][c] = NULL)
              /\ board[r][c] # NULL =>
                    /\ parseCell(charOf(result, sizeNow, r, c), r, c).player = board[r][c].player
                    /\ parseCell(charOf(result, sizeNow, r, c), r, c).type = board[r][c].type

\* A serialized position with a king of one side and a man of the other.
C15_Witness ==
    /\ op = "serialize"
    /\ sizeNow = 10
    /\ \E r \in 0..(sizeNow - 1), c \in 0..(sizeNow - 1) :
          /\ board[r][c] # NULL /\ board[r][c].type = KING /\ board[r][c].player = WHITE
          /\ charOf(result, sizeNow, r, c) = "W"
    /\ \E r \in 0..(sizeNow - 1), c \in 0..(sizeNow - 1) :
          /\ board[r][c] # NULL /\ board[r][c].type = PAWN /\ board[r][c].player = RED
          /\ charOf(result, sizeNow, r, c) = "r"

\* The table key of the position the last legal move leads to, as getBestMove
\* searches it: the last entry a search from an empty table stores.
LastChildKey ==
    tableKey(applyMove(board, currentValidMoves[Len(currentValidMoves)], variant),
             turn # RED, Opponent(turn))

\* C16: an entry is tagged against the window its node was entered with.  The
\* children of the root are entered with the full window, inside which every
\* value lies, so after one getBestMove call on an empty table the entry of
\* the position the last legal move leads to is tagged EXACT.
C16_FlagsByEnteredWindow ==
    (op = "best" /\ nCalls = 1 /\ Len(currentValidMoves) > 0 /\ LastChildKey \in DOMAIN table)
        => /\ table[LastChildKey].depth = searchDepth(aiLevel) - 1
           /\ table[LastChildKey].score > -Infinity
           /\ table[LastChildKey].score < Infinity
           /\ table[LastChildKey].flag = "EXACT"

\* Plain minimax to a depth: the quiescence value with the full window at the
\* leaves, the greatest child value at a max node and the least at a min
\* node, no pruning, no table, no ordering.
RECURSIVE minimax(_, _, _, _, _)
minimaxOver(values, isMax) ==
    CHOOSE x \in values : \A y \in values : IF isMax THEN x >= y ELSE x <= y

minimaxOf(moves, b, depth, isMax, player, v) ==
    IF depth = 0 \/ Len(moves) = 0
    THEN quiesce(b, -Infinity, Infinity, isMax, player, v, 0)
    ELSE minimaxOver({ minimax(applyMove(b, moves[i], v), depth - 1, ~isMax,
                               Opponent(player), v) : i \in 1..Len(moves) }, isMax)

minimax(b, depth, isMax, player, v) ==
    minimaxOf(getValidMoves(b, player, v), b, depth, isMax, player, v)

\* C17: from an empty table, alphaBeta with the full window returns the value
\* of plain minimax to the same depth with the same quiescence at the leaves.
C17_EqualsMinimax ==
    op = "alphaBeta"
        => result = minimax(board, searchDepth(aiLevel) - 1, turn = RED, turn, variant)

\* C18: getBestMove returns the same move whether the table is empty at the
\* call or holds the entries an earlier search left for another variant or
\* level.
C18_TableIndependent ==
    op = "best"
        => result = getBestMove(EmptyTable, [board |-> board, turn |-> turn,
                                             variant |-> variant, aiLevel |-> aiLevel]).move

\* The scores alphaBeta gives the positions after the moves i, i+1, ... of
\* the list, searched one after the other to the depth of the level less one
\* with the full window, the first of them on table t.
RECURSIVE childScores(_, _, _, _)
childScoresNext(sub, gameState, moves, i) ==
    << sub.score >> \o childScores(sub.table, gameState, moves, i + 1)

childScores(t, gameState, moves, i) ==
    IF i > Len(moves) THEN <<>>
    ELSE childScoresNext(childScore(t, gameState, moves[i], searchDepth(gameState.aiLevel)),
                         gameState, moves, i)

gameStateNow == [board |-> board, turn |-> turn, variant |-> variant, aiLevel |-> aiLevel]

\* The first index of the greatest score for RED, of the least for WHITE.
Selected(scores, player) ==
    CHOOSE i \in 1..Len(scores) :
        /\ \A j \in 1..Len(scores) :
              IF player = RED THEN scores[j] <= scores[i] ELSE scores[j] >= scores[i]
        /\ \A j \in 1..(i - 1) : scores[j] # scores[i]

\* C19: when there are legal moves, getBestMove returns the move whose child
\* score is greatest if RED is to move and least if WHITE is, the first such
\* move in generation order when several share that score.
C19_Selection ==
    [][(op' = "best" /\ Len(currentValidMoves) > 0)
          => result' = currentValidMoves[
                 Selected(childScores(table, gameStateNow, currentValidMoves, 1), turn)]]_vars

\* A search from an empty table in which a later move shares the best score
\* with the move returned.
C19_Witness ==
    /\ op = "best"
    /\ nCalls = 1
    /\ Len(currentValidMoves) >= 2
    /\ \E i \in 1..Len(currentValidMoves), j \in 1..Len(currentValidMoves) :
          /\ i < j
          /\ i = Selected(childScores(EmptyTable, gameStateNow, currentValidMoves, 1), turn)
          /\ childScores(EmptyTable, gameStateNow, currentValidMoves, 1)[i]
               = childScores(EmptyTable, gameStateNow, currentValidMoves, 1)[j]
          /\ result = currentValidMoves[i]

\* The capture chains of the side to move, before any filter.
AllJumps == jumpMoves(board, turn, rulesNow)
FromKing(m) == board[m.from.r][m.from.c] # NULL /\ board[m.from.r][m.from.c].type = KING

\* C20: under a variant with kingCapturePriority, if a capture chain of the
\* side to move starts from a king, every move getValidMoves returns is a
\* capture that starts from a king, whatever longer chains start from men.
C20_KingPriority ==
    (rulesNow.kingCapturePriority /\ \E i \in 1..Len(AllJumps) : FromKing(AllJumps[i]))
        => /\ Len(currentValidMoves) > 0
           /\ \A i \in 1..Len(currentValidMoves) :
                 /\ FromKing(currentValidMoves[i])
                 /\ CaptureCount(currentValidMoves[i]) > 0

\* A man has a double jump, a king a single one, majority capture is required
\* and the single jump of the king is what is returned.
C20_Witness ==
    /\ rulesNow.kingCapturePriority
    /\ rulesNow.majorityCaptureRequired
    /\ \E i \in 1..Len(AllJumps) : ~FromKing(AllJumps[i]) /\ CaptureCount(AllJumps[i]) = 2
    /\ \E i \in 1..Len(AllJumps) : FromKing(AllJumps[i])
    /\ \A i \in 1..Len(AllJumps) : FromKing(AllJumps[i]) => CaptureCount(AllJumps[i]) = 1
    /\ Len(currentValidMoves) > 0
    /\ \A i \in 1..Len(currentValidMoves) :
          FromKing(currentValidMoves[i]) /\ CaptureCount(currentValidMoves[i]) = 1

\* The kings standing, on the board in play, on the cells move m captures.
KingsCaptured(m) ==
    Cardinality({ i \in 1..Len(m.captures) :
                    /\ board[m.captures[i].r][m.captures[i].c] # NULL
                    /\ board[m.captures[i].r][m.captures[i].c].type = KING })

\* The chains left by the king-priority and the majority filter.
Survivors == majorityFilter(rulesNow, Candidates)
SurvivorKings == { KingsCaptured(Survivors[i]) : i \in 1..Len(Survivors) }

\* C21: under a variant with qualityCaptureRequired the capture moves returned
\* are the chains left by the king-priority and majority filters that capture
\* the greatest number of kings among them, kings being counted on the input
\* board.
C21_Quality ==
    (rulesNow.qualityCaptureRequired /\ Len(AllJumps) > 0)
        => /\ Len(currentValidMoves) > 0
           /\ \A i \in 1..Len(currentValidMoves) :
                 /\ CaptureCount(currentValidMoves[i]) > 0
                 /\ \A k \in SurvivorKings : k <= KingsCaptured(currentValidMoves[i])
                 /\ \E j \in 1..Len(Survivors) : Survivors[j] = currentValidMoves[i]
           /\ \A j \in 1..Len(Survivors) :
                 (\A k \in SurvivorKings : k <= KingsCaptured(Survivors[j]))
                     => \E i \in 1..Len(currentValidMoves) : currentValidMoves[i] = Survivors[j]

\* Two chains of the same length, one of them capturing a king, the other not:
\* only the first is returned.
C21_Witness ==
    /\ rulesNow.qualityCaptureRequired
    /\ Cardinality(SurvivorKings) = 2
    /\ Len(currentValidMoves) > 0
    /\ Len(currentValidMoves) < Len(Survivors)
    /\ \A i \in 1..Len(currentValidMoves) : KingsCaptured(currentValidMoves[i]) = 1

\* The directions the claim gives a king under a rule set.
Orthogonals == { <<0, 1>>, <<0, -1>>, <<1, 0>>, <<-1, 0>> }
ClaimDirs(rules) ==
    IF rules.isOrthogonal THEN Orthogonals
    ELSE IF rules.frisianCapturing THEN Diagonals \cup Orthogonals
    ELSE Diagonals

\* The kings of the side to move.
KingsToMove ==
    { p \in Cells(sizeNow) :
        /\ board[p.r][p.c] # NULL
        /\ board[p.r][p.c].player = turn
        /\ board[p.r][p.c].type = KING }

\* C22: a king steps and captures along every direction of its rule set: the
\* four orthogonals in an orthogonal variant, the four diagonals in a diagonal
\* one, all eight in the hybrid one.  When no capture exists a king steps to
\* any empty neighbour in such a direction, and it has a capture chain that
\* starts over any opposing neighbour with an empty cell behind it.
C22_KingDirections ==
    \A p \in KingsToMove : \A d \in ClaimDirs(rulesNow) :
        /\ ( /\ InBoard(sizeNow, p.r + d[1], p.c + d[2])
             /\ ~Occupied(board, p.r + d[1], p.c + d[2])
             /\ Len(AllJumps) = 0 )
              => \E i \in 1..Len(currentValidMoves) :
                    /\ currentValidMoves[i].from = p
                    /\ currentValidMoves[i].to = Pos(p.r + d[1], p.c + d[2])
        /\ ( /\ InBoard(sizeNow, p.r + 2 * d[1], p.c + 2 * d[2])
             /\ Occupied(board, p.r + d[1], p.c + d[2])
             /\ board[p.r + d[1]][p.c + d[2]].player # turn
             /\ ~Occupied(board, p.r + 2 * d[1], p.c + 2 * d[2]) )
              => \E i \in 1..Len(AllJumps) :
                    /\ AllJumps[i].from = p
                    /\ AllJumps[i].captures[1] = Pos(p.r + d[1], p.c + d[2])

\* C23: under a variant that plays on dark squares, every board a game reaches
\* from the initial board by legal moves has all its pieces on dark squares.
C23_DarkSquares ==
    (mode = "PLAY" /\ rulesNow.darkSquarePlay)
        => \A p \in Cells(sizeNow) : board[p.r][p.c] # NULL => (p.r + p.c) % 2 = 1

\* The piece that made move m, on the board applyMove returns.
MovedPiece(m) == applyMove(board, m, variant)[m.to.r][m.to.c]

\* C24: the piece that made a returned capture has, on the board applyMove
\* produces, the rank the generator used for the last link of the chain: a
\* king stays a king, and under mid-chain promotion a man whose chain touched
\* the promotion rank and went on with king rules is a king after the move,
\* also when the chain ends on another row.
C24_RankAfterChain ==
    \A i \in 1..Len(currentValidMoves) :
        LET m == currentValidMoves[i]
        IN  (CaptureCount(m) > 0 /\ m.to # m.from) =>
              /\ MovedPiece(m) # NULL
              /\ board[m.from.r][m.from.c].type = KING => MovedPiece(m).type = KING
              /\ ( /\ board[m.from.r][m.from.c].type = PAWN
                   /\ rulesNow.pawnKingTransformationMidJump
                   /\ \E k \in 1..(Len(m.captures) - 1) : FirstPromotedAt(m, k) )
                    => MovedPiece(m).type = KING

\* A man of the side to move stands before an opposing king with an empty
\* cell behind it: the capture the rule set forbids.
ManFacesKing ==
    \E p \in Cells(sizeNow) : \E d \in Diagonals :
        /\ board[p.r][p.c] # NULL
        /\ board[p.r][p.c].player = turn
        /\ board[p.r][p.c].type = PAWN
        /\ d[1] = (IF turn = RED THEN -1 ELSE 1)
        /\ InBoard(sizeNow, p.r + 2 * d[1], p.c + 2 * d[2])
        /\ Occupied(board, p.r + d[1], p.c + d[2])
        /\ board[p.r + d[1]][p.c + d[2]].player # turn
        /\ board[p.r + d[1]][p.c + d[2]].type = KING
        /\ ~Occupied(board, p.r + 2 * d[1], p.c + 2 * d[2])

\* C25: under a rule set that forbids men to capture kings, no capture chain
\* of a man, returned or not, holds a cell a king stands on, while a king
\* still has a chain over an opposing king next to it with an empty cell
\* behind.
C25_MenSpareKings ==
    ~rulesNow.pawnCanCaptureKing =>
        /\ \A i \in 1..Len(AllJumps) :
              ~FromKing(AllJumps[i]) => KingsCaptured(AllJumps[i]) = 0
        /\ \A i \in 1..Len(currentValidMoves) :
              ~FromKing(currentValidMoves[i]) => KingsCaptured(currentValidMoves[i]) = 0
        /\ \A p \in KingsToMove : \A d \in Diagonals :
              ( /\ InBoard(sizeNow, p.r + 2 * d[1], p.c + 2 * d[2])
                /\ Occupied(board, p.r + d[1], p.c + d[2])
                /\ board[p.r + d[1]][p.c + d[2]].player # turn
                /\ board[p.r + d[1]][p.c + d[2]].type = KING
                /\ ~Occupied(board, p.r + 2 * d[1], p.c + 2 * d[2]) )
                  => \E i \in 1..Len(AllJumps) :
                        /\ AllJumps[i].from = p
                        /\ AllJumps[i].captures[1] = Pos(p.r + d[1], p.c + d[2])

\* A man and a king of the side to move both stand before an opposing king:
\* the captures returned are those of the king.
C25_Witness ==
    /\ ~rulesNow.pawnCanCaptureKing
    /\ ManFacesKing
    /\ Len(currentValidMoves) > 0
    /\ \A i \in 1..Len(currentValidMoves) :
          FromKing(currentValidMoves[i]) /\ KingsCaptured(currentValidMoves[i]) = 1

\* The value of the piece on cell q without any rank bonus: rank weight,
\* table entry and advancement.
Unrewarded(q) ==
    LET p == board[q.r][q.c]
        isRed == p.player = RED
    IN  (IF p.type = KING THEN 3500 ELSE 1000)
        + (IF isRed THEN PST[Min(q.r, 7) + 1][Min(q.c, 7) + 1]
                    ELSE PST[7 - Min(q.r, 7) + 1][7 - Min(q.c, 7) + 1])
        + (IF p.type = PAWN THEN (IF isRed THEN 7 - q.r ELSE q.r) * 30 ELSE 0)

PieceCells == { q \in Cells(sizeNow) : board[q.r][q.c] # NULL }

SideOf(q) == IF board[q.r][q.c].player = RED THEN 1 ELSE -1

RECURSIVE SumOver(_, _)
SumOver(S, bonusRow) ==
    IF S = {} THEN 0
    ELSE LET q == CHOOSE x \in S : TRUE
         IN  SideOf(q) * ( Unrewarded(q) + 25
                           + (IF q.r = bonusRow[board[q.r][q.c].player] THEN 150 ELSE 0) )
             + SumOver(S \ {q}, bonusRow)

\* The score of the board when the bonus goes to the pieces standing on
\* bonusRow[their side].
ScoreWithBonusOn(bonusRow) ==
    IF rulesNow.isLosingGoal THEN -SumOver(PieceCells, bonusRow)
    ELSE SumOver(PieceCells, bonusRow)

OwnRank == [pl \in Player |-> IF pl = RED THEN sizeNow - 1 ELSE 0]
FarRank == [pl \in Player |-> IF pl = RED THEN 0 ELSE sizeNow - 1]

\* C26 as stated: a piece receives BACK_ROW exactly when it stands on the
\* opponent's home rank, row 0 for RED and row N-1 for WHITE.
C26_OpponentHomeRank ==
    op = "eval" => result = ScoreWithBonusOn(FarRank)

\* C26 amended: a piece receives BACK_ROW exactly when it stands on the home
\* rank of its own side, row N-1 for RED and row 0 for WHITE.
C26_OwnHomeRank ==
    op = "eval" => result = ScoreWithBonusOn(OwnRank)

\* An evaluated board with a RED piece on row N-1 and another piece on row 0.
C26_Witness ==
    /\ op = "eval"
    /\ \E q \in PieceCells : q.r = sizeNow - 1 /\ board[q.r][q.c].player = RED
    /\ \E q \in PieceCells : q.r = 0

\* C27: the table never holds more than 50000 entries, and a top-level
\* search starts with at most 20000: of the entries the table held before a
\* call of getBestMove, at most 20000 are still there after it (nothing but
\* the clearing at the start of the call removes an entry).
C27_TableBounds ==
    [][ /\ tableSize(table') <= 50000
        /\ op' = "best" => Cardinality(DOMAIN table \cap DOMAIN table') <= 20000 ]_vars

\* alphaBeta searched a position with legal moves on a table of 50000
\* entries: the entry of the position was not stored.
C27_Witness ==
    /\ op = "alphaBeta"
    /\ Len(currentValidMoves) > 0
    /\ tableSize(table) = 50000
    /\ tableKey(board, turn = RED, turn) \notin DOMAIN table

\* C28: getBestMove terminates: a search that was started returns its move
\* (or null) to the application.
C28_Terminates == <>(op = "best")

\* A search that went through the loops of getBestMove and alphaBeta has
\* returned a move and left entries in the table.
C28_Witness ==
    /\ op = "best"
    /\ stack = <<>>
    /\ result # NULL
    /\ nCalls = 1
    /\ table # EmptyTable

Calls == { k \in 1..Len(stack) : stack[k].fn \in {"alphaBeta", "quiesce"} }

\* C30: in every call of alphaBeta and quiesce under way isMax is true
\* exactly when the side to move is RED, and the side quiesce passes to its
\* recursive call is the opponent of the side it moved for.
C30_MaxIsRed ==
    /\ \A k \in Calls : stack[k].isMax <=> stack[k].player = RED
    /\ \A k \in Calls :
          (stack[k].fn = "quiesce" /\ stack[k].depth > 0)
              => stack[k].player = Opponent(stack[k - 1].player)

\* quiesce has called itself, under alphaBeta under getBestMove.
C30_Witness ==
    \E k \in Calls : stack[k].fn = "quiesce" /\ stack[k].depth > 0 /\ stack[k].pc # "start"

\* C29: on the board the adapter hands to the engine every piece's position
\* is the cell that holds it, and every move returned for that board starts
\* from a cell that holds a piece of the side to move.
C29_PositionsMatchCells ==
    op = "validMoves" =>
        /\ \A p \in Cells(sizeNow) :
              result.board[p.r][p.c] # NULL => result.board[p.r][p.c].position = p
        /\ \A i \in 1..Len(result.moves) :
              /\ board[result.moves[i].from.r][result.moves[i].from.c] # NULL
              /\ board[result.moves[i].from.r][result.moves[i].from.c].player = turn

=============================================================================
